---- MODULE Spec2Model ----
(***************************************************************************)
(* OpenRouter proxy: the Key Manager (key rotation and cooldown) and the   *)
(* chat-completion retry loop that drives it.                              *)
(*                                                                         *)
(* Time is a whole number of seconds.  A step of the model is one          *)
(* lock-protected Key Manager operation, one upstream answer, or one tick  *)
(* of the clock.                                                           *)
(*                                                                         *)
(* One chat request is followed through the handler in full.  Other        *)
(* callers reach the Key Manager through its endpoints; every sequence of  *)
(* Key Manager calls is explored in SpecKM.                                *)
(*                                                                         *)
(* Beside them stand the generic proxy route with its free-only models     *)
(* filter and its SSE relay, and the model filter cache.                   *)
(***************************************************************************)
EXTENDS Integers, Sequences, FiniteSets, TLC

\* ---------------------------------------------------------------- bounds
MaxKeys == 3
MaxTime == 2
MaxCooldown == 1
MaxChunks == 2
MaxModels == 2
MaxLines == 3
MaxTtl == 1
MaxCallers == 2

\* ------------------------------------------------------ program constants
max_retries == 10
RATE_LIMIT_ERROR_CODE == 429

KeyNames == <<"A", "B", "C", "D", "E", "F">>
KeyUniverse == {KeyNames[i] : i \in 1..MaxKeys}
None == "None"
Strategies == {"round-robin", "first", "random", "other"}
Requests == {"r1"}
\* the largest timestamp (seconds) datetime.fromtimestamp converts, scaled to
\* the clock of the model; beyond it the conversion raises
MaxTimestamp == MaxTime + 1
\* reset_time_ms values a caller can pass: absent (0), a whole second, or a
\* value that cannot be converted
ResetTimes == {0} \cup {1000 * s : s \in 1..(MaxTimestamp + 1)}
\* upstream statuses of a failed attempt other than the rate limit
ErrorStatuses == {400, RATE_LIMIT_ERROR_CODE, 500}

\* an Authorization value "Bearer x"; << >> stands for a missing header
Bearer(x) == <<"Bearer", x>>
\* config["access_key"] and the Authorization values a client sends
access_key == "access"
Authorizations == {<< >>, Bearer(access_key), Bearer("wrong")}
\* model ids a chat request names, and the free set of the model filter
Models == {"paid", "free"}
free_model_ids == {"free"}
\* request paths below /api/v1, as sequences of pieces of the path string
Paths == {<<"/models">>, <<"/models", "x">>, <<"/chat", "/completions">>}
\* config["openrouter"]["public_endpoints"]
public_endpoints == {<<"/api/v1", "/models">>}
\* upstream statuses seen by the generic proxy route
RouteStatuses == {200, 400, RATE_LIMIT_ERROR_CODE, 500}
\* httpx.ConnectError, httpx.TimeoutException, any other exception
TransportErrors == {"connect", "timeout", "other"}

VARIABLES
    \* KeyManager fields
    keys, cooldown_seconds, current_index, disabled_until, strategy,
    use_last_key, last_key,
    \* Prometheus gauges
    ACTIVE_KEYS, COOLDOWN_KEYS,
    \* the clock (datetime.now()) and the keys upstream rate-limits
    now, limited,
    \* outcome of the Key Manager call made by the last step, if any
    km_ret,
    \* log of the endpoint calls made since start-up, while they follow the
    \* sequence acquire x4, disable "B", acquire x3
    script,
    \* per chat request: position in the handler and its locals
    pc, is_streaming, attempt, api_key, last_error, result, yielded,
    \* per chat request: history (counts of calls made, sources of bytes)
    n_acquired, n_attempts, stream_src, good_at_start, reenabled,
    \* per chat request: what the client sent (Authorization value, model id)
    \* and the headers of its latest upstream request
    authorization, model, headers,
    \* configuration: openrouter.free_only
    free_only,
    \* the request served by the generic proxy route and its locals
    route,
    \* the models-list body given to remove_paid_models and what it returned
    filt,
    \* the SSE stream relayed by sse_stream and the Prometheus counter
    sse, TOKENS_RECEIVED,
    \* ModelFilterService: whether it is constructed, its fields _cache_ttl,
    \* _all_models, _free_model_ids, _last_fetch_time, and the outcome of the
    \* last read
    mf_built, mf_cache_ttl, mf_all_models, mf_free_model_ids,
    mf_last_fetch_time, mf_ret,
    \* history: the entry a key had when disable_key was last called for it
    km_was,
    \* ModelFilterService._lock (the caller that holds it, 0 when free), the
    \* callers of the read operations, and the last refresh that came back
    mf_lock, mf_call, mf_last,
    \* KeyManager.lock: "free" or "held"
    km_lock,
    \* per request: the keys its attempts were made with, and the attempts
    \* whose upstream response is open
    tried, open_resp

kmVars == <<keys, cooldown_seconds, current_index, disabled_until, strategy,
            use_last_key, last_key, ACTIVE_KEYS, COOLDOWN_KEYS, km_lock>>
\* history of the retry loop
loopVars == <<tried, open_resp>>
reqVars == <<pc, is_streaming, attempt, api_key, last_error, result, yielded,
             n_acquired, n_attempts, stream_src, good_at_start, reenabled,
             authorization, model, headers, loopVars>>
\* the variables of the parts that stand beside the Key Manager and the two
\* front ends
filterVars == <<filt>>
sseVars == <<sse, TOKENS_RECEIVED>>
cacheVars == <<mf_built, mf_cache_ttl, mf_all_models, mf_free_model_ids,
               mf_last_fetch_time, mf_ret>>
histVars == <<km_was>>
callVars == <<mf_lock, mf_call, mf_last>>
auxVars == <<filterVars, sseVars, cacheVars, histVars, callVars>>
baseVars == <<kmVars, now, limited, km_ret, script, reqVars, free_only,
              route, histVars>>
frontVars == <<baseVars, callVars>>
vars == <<kmVars, now, limited, km_ret, script, reqVars, free_only, route,
          auxVars>>

Pool == {keys[i] : i \in 1..Len(keys)}

\* ------------------------------------------------------------ KeyManager

\* key in self.disabled_until and self.disabled_until[key] > now_
IsCooling(du, k, t) == k \in DOMAIN du /\ du[k] > t

\* update_metrics: the two list comprehensions over self.keys
ActiveCount(du, t) ==
    Cardinality({i \in 1..Len(keys) :
                    keys[i] \notin DOMAIN du \/ du[keys[i]] <= t})

\* variant: the cooldown gauge counts a key whose deadline is now
CooldownCount_inclusive(du, t) ==
    Cardinality({i \in 1..Len(keys) :
                    keys[i] \in DOMAIN du /\ du[keys[i]] >= t})

CooldownCount(du, t) ==
    Cardinality({i \in 1..Len(keys) :
                    keys[i] \in DOMAIN du /\ du[keys[i]] > t})

\* get_next_key, first loop: keys with an entry that now_ has reached
ExpiredKeys(du, t) ==
    {k \in Pool : k \in DOMAIN du /\ t >= du[k]}

\* variant: a cooling key counts as available one second early
AvailableKeys_early(du, t) ==
    {k \in Pool : k \notin DOMAIN du \/ t + 1 >= du[k]}

\* variant: the cooldown entries are not consulted
AvailableKeys_all(du, t) == Pool

\* get_next_key, first loop: keys without an entry, or expired
AvailableKeys(du, t) ==
    {k \in Pool : k \notin DOMAIN du \/ t >= du[k]}

\* variant: expired entries are not deleted
Sweep_keep(du, t) == du

\* variant: every entry whose deadline has passed is deleted, also the entry
\* of a key that is not in the pool
Sweep_any(du, t) ==
    [k \in {x \in DOMAIN du : du[x] > t} |-> du[k]]

\* get_next_key, second loop: del self.disabled_until[key] for expired keys
Sweep(du, t) ==
    [k \in (DOMAIN du) \ ExpiredKeys(du, t) |-> du[k]]

\* round-robin loop: probe keys[idx], advance idx, stop at an available key
RECURSIVE RoundRobinScan(_, _, _)
RoundRobinScan(idx, avail, left) ==
    IF left = 0
    THEN [key |-> None, idx |-> idx]
    ELSE LET key == keys[idx + 1]
             nxt == (idx + 1) % Len(keys)
         IN  IF key \in avail
             THEN [key |-> key, idx |-> nxt]
             ELSE RoundRobinScan(nxt, avail, left - 1)

\* variant: round-robin leaves the cursor where it was
StrategyChoices_stay(avail) ==
    CASE strategy = "round-robin" ->
            {[key |-> RoundRobinScan(current_index, avail, Len(keys)).key,
              idx |-> current_index]}
      [] strategy \in {"first", "random"} ->
            {[key |-> k, idx |-> current_index] : k \in avail}
      [] OTHER -> {}

\* The strategy-dictated selections: records [key, idx]
StrategyChoices(avail) ==
    CASE strategy = "round-robin" ->
            {RoundRobinScan(current_index, avail, Len(keys))}
      [] strategy = "first" ->
            \* next(iter(set)): the set's iteration order is hash order
            {[key |-> k, idx |-> current_index] : k \in avail}
      [] strategy = "random" ->
            {[key |-> k, idx |-> current_index] : k \in avail}
      [] OTHER -> {}

\* variant: the last key is preferred without looking at its cooldown
SelectKey_stale(avail) ==
    IF use_last_key /\ last_key # None
    THEN {[key |-> last_key, idx |-> current_index]}
    ELSE StrategyChoices(avail)

\* variant: the "same" option is ignored
SelectKey_strategy(avail) == StrategyChoices(avail)

\* the selection step of get_next_key, once some key is available
SelectKey(avail) ==
    IF use_last_key /\ last_key \in avail
    THEN {[key |-> last_key, idx |-> current_index]}
    ELSE StrategyChoices(avail)

\* soonest_available = min(self.disabled_until.values());
\* wait_seconds = (soonest_available - now_).total_seconds()
WaitSeconds(du, t) ==
    (CHOOSE d \in {du[k] : k \in DOMAIN du} :
        \A e \in {du[k] : k \in DOMAIN du} : d <= e) - t

\* get_next_key: every outcome the call can have in the current state.
\*   op = "acquire": a key is returned;  "fail": the 503 HTTPException;
\*   "error": RuntimeError (unknown strategy)
\*   wait: the wait_seconds the failing call computes and logs ({} when it
\*   computes none)
get_next_key ==
    LET avail == AvailableKeys(disabled_until, now)
        du    == Sweep(disabled_until, now)
    IN  IF avail = {}
        THEN {[op |-> "fail", key |-> None, idx |-> current_index,
               du |-> du, last |-> last_key, metrics |-> FALSE,
               wait |-> {WaitSeconds(du, now)}]}
        ELSE IF SelectKey(avail) = {}
        THEN {[op |-> "error", key |-> None, idx |-> current_index,
               du |-> du, last |-> last_key, metrics |-> FALSE,
               wait |-> {}]}
        ELSE {[op |-> "acquire", key |-> s.key, idx |-> s.idx,
               du |-> du, last |-> s.key, metrics |-> TRUE, wait |-> {}] :
                 s \in SelectKey(avail)}

\* datetime.fromtimestamp(reset_time_ms / 1000)
ResetDatetime(reset_time_ms) == reset_time_ms \div 1000

\* datetime.fromtimestamp returns (it raises for a value out of range)
FromTimestampOk(reset_time_ms) ==
    ResetDatetime(reset_time_ms) <= MaxTimestamp

\* self.disabled_until.get(k): the deadline stored for k ({} when none is)
Entry(du, k) == IF k \in DOMAIN du THEN {du[k]} ELSE {}

\* variant: a reset time equal to now is used as the deadline
DisabledUntil_ge(reset_time_ms, t) ==
    IF reset_time_ms # 0 /\ FromTimestampOk(reset_time_ms)
       /\ ResetDatetime(reset_time_ms) >= t
    THEN ResetDatetime(reset_time_ms)
    ELSE t + cooldown_seconds

\* disable_key: the deadline chosen for the key
DisabledUntil(reset_time_ms, t) ==
    IF reset_time_ms # 0
    THEN IF ~FromTimestampOk(reset_time_ms)
         THEN t + cooldown_seconds          \* except Exception
         ELSE IF ResetDatetime(reset_time_ms) > t
         THEN ResetDatetime(reset_time_ms)
         ELSE t + cooldown_seconds
    ELSE t + cooldown_seconds

\* variant: a key that is cooling keeps the later of its two deadlines
SetEntry_max(du, k, d) ==
    [x \in (DOMAIN du) \cup {k} |->
        IF x = k THEN (IF k \in DOMAIN du /\ du[k] > d THEN du[k] ELSE d)
        ELSE du[x]]

\* self.disabled_until[key] = disabled_until
SetEntry(du, k, d) ==
    [x \in (DOMAIN du) \cup {k} |-> IF x = k THEN d ELSE du[x]]

\* self.lock = asyncio.Lock()
Unlocked == "free"

\* variant: the lock is still held when the call returns
AfterBlock_held == "held"

\* `async with self.lock:` in get_next_key and disable_key: the block has no
\* await, so a call that finds the lock free enters and leaves the block
\* without another task running, and the lock is released when it returns
AfterBlock == Unlocked

\* The Key Manager after a get_next_key call with outcome o
ApplyGetNextKey(o) ==
    /\ km_lock = Unlocked
    /\ km_lock' = AfterBlock
    /\ disabled_until' = o.du
    /\ current_index' = o.idx
    /\ last_key' = o.last
    /\ IF o.metrics
       THEN /\ ACTIVE_KEYS' = ActiveCount(o.du, now)
            /\ COOLDOWN_KEYS' = CooldownCount(o.du, now)
       ELSE UNCHANGED <<ACTIVE_KEYS, COOLDOWN_KEYS>>
    /\ km_ret' = [op |-> o.op, key |-> o.key, until |-> 0, wait |-> o.wait,
                   reset |-> 0]
    /\ UNCHANGED <<keys, cooldown_seconds, strategy, use_last_key>>

\* The Key Manager after disable_key(k, reset_time_ms)
ApplyDisableKey(k, reset_time_ms) ==
    LET d  == DisabledUntil(reset_time_ms, now)
        du == SetEntry(disabled_until, k, d)
    IN  /\ km_lock = Unlocked
        /\ km_lock' = AfterBlock
        /\ disabled_until' = du
        /\ ACTIVE_KEYS' = ActiveCount(du, now)
        /\ COOLDOWN_KEYS' = CooldownCount(du, now)
        /\ km_ret' = [op |-> "penalize", key |-> k, until |-> d,
                       wait |-> {}, reset |-> reset_time_ms]
        /\ UNCHANGED <<keys, cooldown_seconds, strategy, use_last_key,
                       current_index, last_key>>

NoRet == [op |-> "none", key |-> None, until |-> 0, wait |-> {},
          reset |-> 0]

\* the log once the calls have left the sequence
OffScript == <<"off">>

\* positions of the sequence (log lengths) at which the next call is an acquire
AcquireSlots == {0, 1, 2, 3, 5, 6, 7}

LogAcquire(o) ==
    script' = IF script # OffScript /\ o.op = "acquire"
                 /\ Len(script) \in AcquireSlots
              THEN Append(script, o.key)
              ELSE OffScript

LogDisable(k, reset_time_ms) ==
    script' = IF script # OffScript /\ Len(script) = 4 /\ k = "B"
                 /\ reset_time_ms = 0
              THEN Append(script, "disable")
              ELSE OffScript

\* ------------------------------------------------ free-only models filter
\* remove_paid_models, applied by proxy_with_httpx to the body of a models
\* endpoint answer when free_only is set.

PRICES_TO_CHECK ==
    {"prompt", "completion", "request", "image", "web_search",
     "internal_reasoning"}

\* a price field the pricing object does not have
Missing == "missing"

AllZero == [k \in PRICES_TO_CHECK |-> "0"]
NoFields == [k \in PRICES_TO_CHECK |-> Missing]

\* a "pricing" object with the given fields
Pricing(f) == [shape |-> "dict", fields |-> f]

\* A parsed entry of "data".  shape: "dict" for a JSON object, "scalar" for
\* any other JSON value.  pricing.shape: "dict" for an object, "absent" when
\* the entry has no "pricing" key, "null" for a value that is not an object.
\* A price is the string "0", another string ("1"), or the JSON number 0
\* (written "n0").
Model(id, pricing) == [shape |-> "dict", id |-> id, pricing |-> pricing]

ModelEntries ==
    { Model("m1", Pricing(AllZero)),
      Model("m2", Pricing(AllZero)),
      Model("p1", Pricing([AllZero EXCEPT !["prompt"] = "1"])),
      Model("p2", Pricing([AllZero EXCEPT !["internal_reasoning"] = "1"])),
      Model("x1", Pricing([AllZero EXCEPT !["web_search"] = Missing])),
      Model("x2", [shape |-> "absent", fields |-> NoFields]),
      Model("n1", Pricing([AllZero EXCEPT !["request"] = "n0"])),
      Model("b1", [shape |-> "null", fields |-> NoFields]),
      [shape |-> "scalar", id |-> "s1",
       pricing |-> [shape |-> "absent", fields |-> NoFields]] }

\* sequences of entries of length at most n
RECURSIVE EntryLists(_)
EntryLists(n) ==
    IF n = 0
    THEN {<< >>}
    ELSE EntryLists(n - 1)
         \cup {Append(l, m) : l \in {x \in EntryLists(n - 1) : Len(x) = n - 1},
                              m \in ModelEntries}

\* The value json.loads returns.  type: "object" (a dict) or the type of
\* another JSON value; data: the value under "data" (kind "list" with its
\* items, "absent", or "scalar" for a value that is not a list)
Doc(type, kind, items) ==
    [type |-> type, data |-> [kind |-> kind, items |-> items]]

Documents ==
    {Doc("array", "absent", << >>), Doc("string", "absent", << >>),
     Doc("object", "absent", << >>), Doc("object", "scalar", << >>)}
    \cup {Doc("object", "list", l) : l \in EntryLists(MaxModels)}

\* The bytes of a body.  wellformed: json.loads accepts them; layout: "dumps"
\* for exactly the bytes json.dumps(doc, ensure_ascii=False) writes, "other"
\* for any other text of the same value (spacing, escapes, number forms)
Malformed ==
    [wellformed |-> FALSE, layout |-> "other",
     doc |-> Doc("string", "absent", << >>)]

Bodies ==
    {Malformed}
    \cup {[wellformed |-> TRUE, layout |-> l, doc |-> d] :
             l \in {"dumps", "other"}, d \in Documents}

\* json.dumps(data, ensure_ascii=False).encode("utf-8")
json_dumps(doc) == [wellformed |-> TRUE, layout |-> "dumps", doc |-> doc]

\* model.get("pricing", {}).get(k, "1") raises AttributeError when the entry
\* or its pricing is not a dict
EntryRaises(m) == m.shape # "dict" \/ m.pricing.shape = "null"

\* model.get("pricing", {}).get(k, "1")
Price(m, k) ==
    IF m.pricing.shape = "dict" /\ m.pricing.fields[k] # Missing
    THEN m.pricing.fields[k]
    ELSE "1"

\* all(... == "0" for k in PRICES_TO_CHECK)
IsFreeModel(m) == \A k \in PRICES_TO_CHECK : Price(m, k) = "0"

\* what a call gives back: the bytes returned, or an exception
Returned(body) == [raised |-> FALSE, body |-> body]
Raised == [raised |-> TRUE, body |-> Malformed]

\* variant: the filtered list alone is written back, not the object
remove_paid_models_bare(body) ==
    IF ~body.wellformed
    THEN Returned(body)
    ELSE IF body.doc.type # "object"
    THEN Raised
    ELSE IF body.doc.data.kind # "list"
    THEN Returned(body)
    ELSE IF \E i \in 1..Len(body.doc.data.items) :
                EntryRaises(body.doc.data.items[i])
    THEN Raised
    ELSE LET filtered_data == SelectSeq(body.doc.data.items, IsFreeModel)
         IN  IF filtered_data # << >>
             THEN Returned(json_dumps(Doc("array", "absent", << >>)))
             ELSE Returned(body)

\* remove_paid_models(body)
remove_paid_models(body) ==
    IF ~body.wellformed
    THEN Returned(body)                  \* except (JSONDecodeError, ValueError)
    ELSE IF body.doc.type # "object"
    THEN Raised                          \* data.get: data is not a dict
    ELSE IF body.doc.data.kind # "list"
    THEN Returned(body)
    ELSE IF \E i \in 1..Len(body.doc.data.items) :
                EntryRaises(body.doc.data.items[i])
    THEN Raised
    ELSE LET filtered_data == SelectSeq(body.doc.data.items, IsFreeModel)
         IN  IF filtered_data # << >>
             THEN Returned(json_dumps(
                     [body.doc EXCEPT !.data.items = filtered_data]))
             ELSE Returned(body)

\* no body has been filtered yet
NoFilter ==
    [pc |-> "idle", in |-> Malformed, out |-> Malformed, prev |-> Malformed,
     raised |-> FALSE]

\* ------------------------------------------------------- SSE relay
\* sse_stream, the generator proxy_with_httpx hands to StreamingResponse.

\* A line of the upstream body, as aiter_lines yields it.  kind: "json" for a
\* line "data: {...}" that parses, "cut" for a line that starts with
\* "data: {" and does not parse, "done" for "data: [DONE]", "blank" for the
\* empty line between events.  usage: {} when the object has no "usage",
\* {n} when usage.completion_tokens is n
Line(kind, usage) == [kind |-> kind, usage |-> usage]

Lines ==
    {Line("json", {}), Line("json", {1}), Line("json", {2}),
     Line("cut", {}), Line("done", {}), Line("blank", {})}

\* line.startswith("data: {")
IsJsonLine(line) == line.kind \in {"json", "cut"}

\* no line has been kept in last_json
NoLine == Line("none", {})

NoStream ==
    [pc |-> "idle", enable_token_counting |-> FALSE, upstream |-> << >>,
     relayed |-> << >>, last_json |-> NoLine]

\* the completion_tokens sse_stream adds for last_json: json.loads fails for
\* a cut line, and an object without "usage" adds nothing
TokensOf(line) ==
    IF line.kind = "json" /\ line.usage # {}
    THEN CHOOSE n \in line.usage : TRUE
    ELSE 0

\* if line.startswith("data: {"): last_json = line[6:]
KeepLine(last_json, line) ==
    IF IsJsonLine(line) THEN line ELSE last_json

\* ------------------------------------------------ model filter cache
\* ModelFilterService of src/services/model_filter_service.py.

\* model ids as sequences of pieces of the id string
ModelIds == {<<"a", ":free">>, <<"b">>, <<":free", "c">>}

\* m.get('id', '').endswith(':free')
EndsWithFree(id) == id[Len(id)] = ":free"

\* the "data" lists the upstream models endpoint answers with
ModelLists ==
    {<< >>, << <<"a", ":free">> >>, << <<"b">> >>,
     << <<"b">>, <<"a", ":free">> >>, << <<":free", "c">>, <<"b">> >>}

\* What the GET in _refresh_cache comes back with.  kind: "ok" for a 200 whose
\* JSON object is read, "transport" for an httpx transport error, "status"
\* for a status >= 400 (raise_for_status), "unparsable" for a 200 whose body
\* is not JSON, "entries" for a 200 whose "data" has an entry that is not an
\* object
Answer(kind, data) == [kind |-> kind, data |-> data]

UpstreamAnswers ==
    {Answer("ok", l) : l \in ModelLists}
    \cup {Answer("transport", << >>), Answer("status", << >>),
          Answer("unparsable", << >>),
          Answer("entries", << <<"b">> >>)}

\* the exception is an httpx.HTTPError, which _refresh_cache catches
IsHttpError(ans) == ans.kind \in {"transport", "status"}

ReadOps == {"get_models", "get_free_model_ids", "is_model_allowed"}

\* concurrent callers of the read operations; 0 stands for none
Callers == 1..MaxCallers
NoCaller == 0

\* a caller: pc is "idle", "waiting" (for the lock), "fetching" (it holds the
\* lock and awaits the GET of _refresh_cache) or "done"; fetched: its read
\* made a request; blocked: it found the lock held when it arrived
NoCall == [pc |-> "idle", fetched |-> FALSE, blocked |-> FALSE]

\* the last refresh that came back: the kind of its answer and the time
NoRefresh == [kind |-> "none", at |-> 0]

NoRead ==
    [op |-> "none", fetched |-> FALSE, answer |-> "none", raised |-> FALSE,
     at |-> 0]

\* ------------------------------------------------------------------ Init

NoError == [kind |-> "none", status |-> 0, key |-> None, attempt |-> 0,
            reset |-> 0, exc |-> "none"]
NoResult == [kind |-> "none", status |-> 0, key |-> None, attempt |-> 0,
             wait |-> {}]

\* the generic proxy route before its request arrives
NoRoute ==
    [pc |-> "idle", path |-> << >>, authorization |-> << >>,
     is_stream |-> FALSE, is_public |-> FALSE, api_key |-> "",
     headers |-> << >>, upstream_status |-> 0, reset |-> 0, status |-> 0,
     transport |-> "none"]

Init ==
    /\ keys \in {SubSeq(KeyNames, 1, n) : n \in 1..MaxKeys}
    /\ cooldown_seconds \in 0..MaxCooldown
    /\ strategy \in Strategies
    /\ use_last_key \in BOOLEAN
    /\ current_index = 0
    /\ disabled_until = << >>
    /\ last_key = None
    /\ ACTIVE_KEYS = Len(keys)
    /\ COOLDOWN_KEYS = 0
    /\ now = 1
    /\ limited \in SUBSET Pool
    /\ km_ret = NoRet
    /\ script = << >>
    /\ pc = [r \in Requests |-> "idle"]
    /\ is_streaming = [r \in Requests |-> FALSE]
    /\ attempt = [r \in Requests |-> 0]
    /\ api_key = [r \in Requests |-> None]
    /\ last_error = [r \in Requests |-> NoError]
    /\ result = [r \in Requests |-> NoResult]
    /\ yielded = [r \in Requests |-> 0]
    /\ n_acquired = [r \in Requests |-> 0]
    /\ n_attempts = [r \in Requests |-> 0]
    /\ stream_src = [r \in Requests |-> {}]
    /\ good_at_start = [r \in Requests |-> FALSE]
    /\ reenabled = [r \in Requests |-> FALSE]
    /\ authorization = [r \in Requests |-> << >>]
    /\ model = [r \in Requests |-> "free"]
    /\ headers = [r \in Requests |-> << >>]
    /\ free_only \in BOOLEAN
    /\ route = NoRoute
    /\ filt = NoFilter
    /\ sse = NoStream
    /\ TOKENS_RECEIVED = 0
    /\ mf_built = FALSE
    /\ mf_cache_ttl = 0
    /\ mf_all_models = << >>
    /\ mf_free_model_ids = {}
    /\ mf_last_fetch_time = 0
    /\ mf_ret = NoRead
    /\ km_was = {}
    /\ mf_lock = NoCaller
    /\ mf_call = [c \in Callers |-> NoCall]
    /\ mf_last = NoRefresh
    /\ km_lock = Unlocked
    /\ tried = [r \in Requests |-> {}]
    /\ open_resp = [r \in Requests |-> {}]

\* --------------------------------------------------------------- helpers

Active(r) == pc[r] \notin {"idle", "done"}

\* History: a get_next_key call re-enabled an expired key while r was running
NoteSweep ==
    reenabled' = [r \in Requests |->
        reenabled[r] \/ (ExpiredKeys(disabled_until, now) # {} /\ Active(r))]

\* variant: every response is sent with status 200
Finish_ok(r, kind, status, key, att) ==
    /\ pc' = [pc EXCEPT ![r] = "done"]
    /\ result' = [result EXCEPT ![r] =
                    [kind |-> kind, status |-> 200, key |-> key,
                     attempt |-> att, wait |-> {}]]

\* the request ends and the client has its response; the detail of every
\* HTTPException the handler raises is a fixed text or the upstream text, so
\* no response carries a wait
Finish(r, kind, status, key, att) ==
    /\ pc' = [pc EXCEPT ![r] = "done"]
    /\ result' = [result EXCEPT ![r] =
                    [kind |-> kind, status |-> status, key |-> key,
                     attempt |-> att, wait |-> {}]]

\* ----------------------------------------------------- clock and endpoints

\* datetime.now() advances
Tick ==
    /\ now < MaxTime
    /\ now' = now + 1
    /\ km_ret' = NoRet
    /\ script' = OffScript
    /\ UNCHANGED <<kmVars, limited, reqVars>>
    /\ UNCHANGED <<free_only, route, auxVars>>

\* GET /get_next_key
GetNextKeyEndpoint ==
    /\ \E o \in get_next_key : ApplyGetNextKey(o) /\ LogAcquire(o)
    /\ NoteSweep
    /\ UNCHANGED <<now, limited, pc, is_streaming, attempt, api_key,
                   last_error, result, yielded, n_acquired, n_attempts,
                   stream_src, good_at_start>>
    /\ UNCHANGED <<authorization, model, headers, free_only, route,
                   auxVars, loopVars>>

\* POST /disable_key with any key string and any reset_time_ms
DisableKeyEndpoint(k, reset_time_ms) ==
    /\ ApplyDisableKey(k, reset_time_ms)
    /\ LogDisable(k, reset_time_ms)
    /\ UNCHANGED <<now, limited, reqVars>>
    /\ UNCHANGED <<free_only, route, auxVars>>

\* GET /metrics: key_manager.update_metrics()
MetricsEndpoint ==
    /\ ACTIVE_KEYS' = ActiveCount(disabled_until, now)
    /\ COOLDOWN_KEYS' = CooldownCount(disabled_until, now)
    /\ km_ret' = NoRet
    /\ script' = OffScript
    /\ UNCHANGED <<keys, cooldown_seconds, current_index, disabled_until,
                   strategy, use_last_key, last_key, km_lock, now, limited,
                   reqVars>>
    /\ UNCHANGED <<free_only, route, auxVars>>

\* POST /disable_key as above, with the entry the key had before the call
\* noted in km_was
DisableKeyObserved(k, reset_time_ms) ==
    /\ ApplyDisableKey(k, reset_time_ms)
    /\ LogDisable(k, reset_time_ms)
    /\ km_was' = Entry(disabled_until, k)
    /\ UNCHANGED <<now, limited, reqVars>>
    /\ UNCHANGED <<free_only, route, filterVars, sseVars, cacheVars,
                   callVars>>

\* ------------------------------------------------- chat-completion request

\* POST /api/v1/chat/completions with Authorization value a and model m:
\* proxy_chat calls handle(), which enters the retry loop (attempt = 0,
\* last_error = None); neither reads the Authorization header, the model
\* filter or free_only
Start(r, s, a, m) ==
    /\ pc[r] = "idle"
    /\ pc' = [pc EXCEPT ![r] = "acquire"]
    /\ is_streaming' = [is_streaming EXCEPT ![r] = s]
    /\ authorization' = [authorization EXCEPT ![r] = a]
    /\ model' = [model EXCEPT ![r] = m]
    /\ good_at_start' = [good_at_start EXCEPT ![r] =
          \E k \in Pool : ~IsCooling(disabled_until, k, now) /\ k \notin limited]
    /\ km_ret' = NoRet
    /\ script' = OffScript
    /\ UNCHANGED <<kmVars, now, limited, attempt, api_key, last_error, result,
                   yielded, n_acquired, n_attempts, stream_src, reenabled>>
    /\ UNCHANGED <<headers, free_only, route, auxVars, loopVars>>

\* headers = {"Authorization": f"Bearer {api_key}", "Content-Type": ...}
ChatHeaders(k) ==
    ("Authorization" :> Bearer(k)) @@ ("Content-Type" :> <<"application/json">>)

\* api_key = await get_next_key() returns a key; the upstream request is sent
ChatAcquireOk(r) ==
    /\ pc[r] = "acquire"
    /\ \E o \in get_next_key :
          /\ o.op = "acquire"
          /\ ApplyGetNextKey(o)
          /\ api_key' = [api_key EXCEPT ![r] = o.key]
          /\ headers' = [headers EXCEPT ![r] = ChatHeaders(o.key)]
          /\ tried' = [tried EXCEPT ![r] = @ \cup {o.key}]
    /\ script' = OffScript
    /\ pc' = [pc EXCEPT ![r] = "attempt"]
    /\ n_acquired' = [n_acquired EXCEPT ![r] = @ + 1]
    /\ n_attempts' = [n_attempts EXCEPT ![r] = @ + 1]
    /\ NoteSweep
    /\ UNCHANGED <<now, limited, is_streaming, attempt, last_error, result,
                   yielded, stream_src, good_at_start>>
    /\ UNCHANGED <<authorization, model, free_only, route, auxVars, open_resp>>

\* variant: a failed get_next_key() is tried again instead of ending the
\* request
ChatAcquireFail_wait(r) ==
    /\ pc[r] = "acquire"
    /\ \E o \in get_next_key :
          /\ o.op # "acquire"
          /\ ApplyGetNextKey(o)
    /\ script' = OffScript
    /\ NoteSweep
    /\ UNCHANGED <<now, limited, pc, is_streaming, attempt, api_key,
                   last_error, result, yielded, n_acquired, n_attempts,
                   stream_src, good_at_start>>
    /\ UNCHANGED <<authorization, model, headers, free_only, route,
                   auxVars, loopVars>>

\* get_next_key() raises: 503 (non-stream) or the generator returns (stream)
ChatAcquireFail(r) ==
    /\ pc[r] = "acquire"
    /\ \E o \in get_next_key :
          /\ o.op # "acquire"
          /\ ApplyGetNextKey(o)
    /\ script' = OffScript
    /\ IF is_streaming[r]
       THEN Finish(r, "stream_no_key", 200, None, attempt[r])
       ELSE Finish(r, "no_key", 503, None, attempt[r])
    /\ NoteSweep
    /\ UNCHANGED <<now, limited, is_streaming, attempt, api_key, last_error,
                   yielded, n_acquired, n_attempts, stream_src, good_at_start>>
    /\ UNCHANGED <<authorization, model, headers, free_only, route,
                   auxVars, loopVars>>

\* variant: the response is opened without a context manager and stays open
\* when the block is left
StreamExit_leak(open, att) == open

\* `async with self._client.stream(...) as response`: leaving the block, by
\* return or by an exception, closes the response of the attempt
StreamExit(open, att) == open \ {att}

\* upstream answers < 400: the completion is returned, or streaming starts
UpstreamOk(r) ==
    /\ pc[r] = "attempt"
    /\ api_key[r] \notin limited
    /\ IF is_streaming[r]
       THEN /\ pc' = [pc EXCEPT ![r] = "streaming"]
            /\ open_resp' = [open_resp EXCEPT ![r] = @ \cup {attempt[r]}]
            /\ UNCHANGED result
       ELSE /\ Finish(r, "completion", 200, api_key[r], attempt[r])
            /\ UNCHANGED open_resp
    /\ km_ret' = NoRet
    /\ script' = OffScript
    /\ UNCHANGED <<kmVars, now, limited, is_streaming, attempt, api_key,
                   last_error, yielded, n_acquired, n_attempts, stream_src,
                   good_at_start, reenabled>>
    /\ UNCHANGED <<authorization, model, headers, free_only, route,
                   auxVars, tried>>

\* variant: no status is retried
Retryable_none(st) == FALSE

\* variant: every error status is retried
Retryable_all(st) == TRUE

\* variant: server errors are retried like the rate limit
Retryable_server(st) == st >= RATE_LIMIT_ERROR_CODE

\* if e.response.status_code == RATE_LIMIT_ERROR_CODE
Retryable(st) == st = RATE_LIMIT_ERROR_CODE

\* upstream answers a status >= 400 (429 exactly for the rate-limited keys;
\* h is the reset timestamp in the body of a 429, 0 when it has none):
\* last_error = e; a 429 goes on to disable_key(api_key), any other status
\* is raised (non-stream) or breaks the loop (stream)
UpstreamHttpError(r, st, h) ==
    /\ pc[r] = "attempt"
    /\ (st = RATE_LIMIT_ERROR_CODE) <=> (api_key[r] \in limited)
    /\ h # 0 => st = RATE_LIMIT_ERROR_CODE
    /\ last_error' = [last_error EXCEPT ![r] =
          [kind |-> "http", status |-> st, key |-> api_key[r],
           attempt |-> attempt[r], reset |-> h, exc |-> "status"]]
    /\ IF Retryable(st)
       THEN /\ pc' = [pc EXCEPT ![r] = "penalize"]
            /\ UNCHANGED result
       ELSE IF is_streaming[r]
       THEN Finish(r, "stream_error", 200, None, attempt[r])
       ELSE Finish(r, "upstream_error", st, api_key[r], attempt[r])
    /\ open_resp' = [open_resp EXCEPT ![r] =
          IF is_streaming[r]
          THEN StreamExit(@ \cup {attempt[r]}, attempt[r])
          ELSE @]
    /\ km_ret' = NoRet
    /\ script' = OffScript
    /\ UNCHANGED <<kmVars, now, limited, is_streaming, attempt, api_key,
                   yielded, n_acquired, n_attempts, stream_src,
                   good_at_start, reenabled>>
    /\ UNCHANGED <<authorization, model, headers, free_only, route,
                   auxVars, tried>>

\* except httpx.RequestError: one clause for every transport failure, which
\* raises HTTPException(status_code=500)
ChatTransportErrorResponse(kind) == 500

\* httpx.RequestError of class kind before any response: 500 (non-stream)
\* or break (stream)
UpstreamRequestError(r, kind) ==
    /\ pc[r] = "attempt"
    /\ last_error' = [last_error EXCEPT ![r] =
          [kind |-> "request", status |-> 0, key |-> api_key[r],
           attempt |-> attempt[r], reset |-> 0, exc |-> kind]]
    /\ IF is_streaming[r]
       THEN Finish(r, "stream_error", 200, None, attempt[r])
       ELSE Finish(r, "request_error", ChatTransportErrorResponse(kind),
                   None, attempt[r])
    /\ km_ret' = NoRet
    /\ script' = OffScript
    /\ UNCHANGED <<kmVars, now, limited, is_streaming, attempt, api_key,
                   yielded, n_acquired, n_attempts, stream_src,
                   good_at_start, reenabled>>
    /\ UNCHANGED <<authorization, model, headers, free_only, route,
                   auxVars, loopVars>>

\* after the loop: raise with the last HTTP status, else 503
Exhausted(r) ==
    IF is_streaming[r]
    THEN Finish(r, "stream_exhausted", 200, None, attempt[r] + 1)
    ELSE IF last_error[r].kind = "http"
    THEN Finish(r, "exhausted", last_error[r].status, last_error[r].key,
                last_error[r].attempt)
    ELSE Finish(r, "exhausted", 503, None, attempt[r] + 1)

\* variant: the loop stops after the first 429
LoopContinues_never(att) == FALSE

\* variant: the loop runs one iteration more
LoopContinues_extra(att) == att < max_retries

\* the loop after a 429: continue when an iteration of range(max_retries)
\* is left
LoopContinues(att) == att + 1 < max_retries

\* await disable_key(api_key); continue
ChatPenalize(r) ==
    /\ pc[r] = "penalize"
    /\ ApplyDisableKey(api_key[r], 0)
    /\ script' = OffScript
    /\ attempt' = [attempt EXCEPT ![r] = @ + 1]
    /\ IF LoopContinues(attempt[r])
       THEN /\ pc' = [pc EXCEPT ![r] = "acquire"]
            /\ UNCHANGED result
       ELSE Exhausted(r)
    /\ UNCHANGED <<now, limited, is_streaming, api_key, last_error, yielded,
                   n_acquired, n_attempts, stream_src, good_at_start,
                   reenabled>>
    /\ UNCHANGED <<authorization, model, headers, free_only, route,
                   auxVars, loopVars>>

\* async for chunk in response.aiter_bytes(): yield chunk
StreamChunk(r) ==
    /\ pc[r] = "streaming"
    /\ yielded[r] < MaxChunks
    /\ yielded' = [yielded EXCEPT ![r] = @ + 1]
    /\ stream_src' = [stream_src EXCEPT ![r] = @ \cup {attempt[r]}]
    /\ km_ret' = NoRet
    /\ script' = OffScript
    /\ UNCHANGED <<kmVars, now, limited, pc, is_streaming, attempt, api_key,
                   last_error, result, n_acquired, n_attempts, good_at_start,
                   reenabled>>
    /\ UNCHANGED <<authorization, model, headers, free_only, route,
                   auxVars, loopVars>>

\* the upstream body ends: return
StreamEnd(r) ==
    /\ pc[r] = "streaming"
    /\ Finish(r, "stream_complete", 200, api_key[r], attempt[r])
    /\ open_resp' = [open_resp EXCEPT ![r] = StreamExit(@, attempt[r])]
    /\ km_ret' = NoRet
    /\ script' = OffScript
    /\ UNCHANGED <<kmVars, now, limited, is_streaming, attempt, api_key,
                   last_error, yielded, n_acquired, n_attempts, stream_src,
                   good_at_start, reenabled>>
    /\ UNCHANGED <<authorization, model, headers, free_only, route,
                   auxVars, tried>>

\* variant: a transport error while the body is read starts another attempt
StreamError_retry(r) ==
    /\ pc[r] = "streaming"
    /\ last_error' = [last_error EXCEPT ![r] =
          [kind |-> "request", status |-> 0, key |-> api_key[r],
           attempt |-> attempt[r], reset |-> 0, exc |-> "other"]]
    /\ attempt' = [attempt EXCEPT ![r] = @ + 1]
    /\ IF LoopContinues(attempt[r])
       THEN /\ pc' = [pc EXCEPT ![r] = "acquire"]
            /\ UNCHANGED result
       ELSE Finish(r, "stream_cut", 200, api_key[r], attempt[r])
    /\ open_resp' = [open_resp EXCEPT ![r] = StreamExit(@, attempt[r])]
    /\ km_ret' = NoRet
    /\ script' = OffScript
    /\ UNCHANGED <<kmVars, now, limited, is_streaming, api_key,
                   yielded, n_acquired, n_attempts, stream_src,
                   good_at_start, reenabled>>
    /\ UNCHANGED <<authorization, model, headers, free_only, route,
                   auxVars, tried>>

\* httpx.RequestError while the body is read: break
StreamError(r) ==
    /\ pc[r] = "streaming"
    /\ last_error' = [last_error EXCEPT ![r] =
          [kind |-> "request", status |-> 0, key |-> api_key[r],
           attempt |-> attempt[r], reset |-> 0, exc |-> "other"]]
    /\ Finish(r, "stream_cut", 200, api_key[r], attempt[r])
    /\ open_resp' = [open_resp EXCEPT ![r] = StreamExit(@, attempt[r])]
    /\ km_ret' = NoRet
    /\ script' = OffScript
    /\ UNCHANGED <<kmVars, now, limited, is_streaming, attempt, api_key,
                   yielded, n_acquired, n_attempts, stream_src,
                   good_at_start, reenabled>>
    /\ UNCHANGED <<authorization, model, headers, free_only, route,
                   auxVars, tried>>

\* -------------------------------------------------- generic proxy route
\* The legacy router reaches a KeyManager of the same class through the
\* KMS endpoints /get_next_key and /disable_key.

\* str.startswith on paths given as sequences of pieces
StartsWith(sq, pre) ==
    Len(pre) <= Len(sq) /\ SubSeq(sq, 1, Len(pre)) = pre

\* variant: only a path equal to a configured prefix is public
IsPublic_exact(path) == (<<"/api/v1">> \o path) \in public_endpoints

\* is_public = any(f"/api/v1{path}".startswith(ep) for ep in public_endpoints)
IsPublic(path) ==
    \E ep \in public_endpoints : StartsWith(<<"/api/v1">> \o path, ep)

\* utils.verify_access_key: passes only for "Bearer <access key>", else 401
verify_access_key(a) == a = Bearer(access_key)

\* ModelFilterService.is_model_allowed
is_model_allowed(model_id) == model_id \in free_model_ids

\* request.headers of an inbound request with Authorization value a; the
\* server hands header names over in lower case
InboundHeaders(a) ==
    LET base == ("host" :> <<"proxy">>)
                @@ ("content-type" :> <<"application/json">>)
                @@ ("x-title" :> <<"app">>)
    IN  IF a = << >> THEN base ELSE ("authorization" :> a) @@ base

StrippedHeaders ==
    {"host", "content-length", "connection", "authorization", "date"}

\* variant: the client's Authorization header is not stripped
prepare_forward_headers_keep(h) ==
    [n \in (DOMAIN h) \ (StrippedHeaders \ {"authorization"}) |-> h[n]]

\* prepare_forward_headers: drop the headers whose lower-cased name is listed
prepare_forward_headers(h) ==
    [n \in (DOMAIN h) \ StrippedHeaders |-> h[n]]

\* req_kwargs["headers"]; Authorization is set when api_key is not empty
ForwardHeaders(a, k) ==
    LET h == prepare_forward_headers(InboundHeaders(a))
    IN  IF k # "" THEN ("Authorization" :> Bearer(k)) @@ h ELSE h

\* except httpx.HTTPStatusError: check_httpx_err(e.response.content, api_key)
\* is called with two arguments for its three parameters; the TypeError is
\* raised inside the except clause, leaves proxy_with_httpx uncaught, and the
\* server answers 500 without calling /disable_key
HttpErrorResponse(st) == 500

\* the except clauses for transport errors
TransportErrorResponse(kind) ==
    CASE kind = "connect" -> 503
      [] kind = "timeout" -> 504
      [] OTHER -> 500

\* proxy_endpoint: is_public and the access check
ProxyEndpoint(path, a, stream) ==
    /\ route.pc = "idle"
    /\ LET pub == IsPublic(path)
           in  == [route EXCEPT !.path = path, !.authorization = a,
                                !.is_stream = stream, !.is_public = pub]
       IN  route' =
             IF ~pub /\ ~verify_access_key(a)
             THEN [in EXCEPT !.pc = "done", !.status = 401]
             ELSE [in EXCEPT !.pc = IF pub THEN "forward" ELSE "key"]
    /\ km_ret' = NoRet
    /\ script' = OffScript
    /\ UNCHANGED <<kmVars, now, limited, reqVars, free_only, auxVars>>

\* proxy_endpoint: GET /get_next_key answered by the KMS
RouteGetKey ==
    /\ route.pc = "key"
    /\ \E o \in get_next_key :
          /\ ApplyGetNextKey(o)
          /\ LogAcquire(o)
          /\ route' =
               CASE o.op = "acquire" ->
                      [route EXCEPT !.pc = "forward", !.api_key = o.key]
                 [] o.op = "fail" ->
                      [route EXCEPT !.pc = "done", !.status = 503]
                 [] OTHER ->
                      [route EXCEPT !.pc = "done", !.status = 500]
    /\ NoteSweep
    /\ UNCHANGED <<now, limited, pc, is_streaming, attempt, api_key,
                   last_error, result, yielded, n_acquired, n_attempts,
                   stream_src, good_at_start, authorization, model, headers,
                   free_only, auxVars, loopVars>>

\* proxy_endpoint: the KMS cannot be reached (httpx.RequestError)
RouteKmsDown ==
    /\ route.pc = "key"
    /\ route' = [route EXCEPT !.pc = "done", !.status = 503]
    /\ km_ret' = NoRet
    /\ script' = OffScript
    /\ UNCHANGED <<kmVars, now, limited, reqVars, free_only, auxVars>>

\* proxy_with_httpx: the request is sent and upstream answers status st;
\* rl and h are what check_rate_limit finds in the body of the answer
RouteForward(st, rl, h) ==
    /\ route.pc = "forward"
    /\ (st = RATE_LIMIT_ERROR_CODE) <=> (route.api_key \in limited)
    /\ rl => st < 400
    /\ h # 0 => rl
    /\ LET sent == [route EXCEPT
                      !.headers = ForwardHeaders(route.authorization,
                                                 route.api_key),
                      !.upstream_status = st]
       IN  route' =
             IF st >= 400
             THEN [sent EXCEPT !.pc = "done", !.status = HttpErrorResponse(st)]
             ELSE IF rl /\ route.api_key # ""
             THEN [sent EXCEPT !.pc = "report", !.status = st, !.reset = h]
             ELSE [sent EXCEPT !.pc = "done", !.status = st]
    /\ km_ret' = NoRet
    /\ script' = OffScript
    /\ UNCHANGED <<kmVars, now, limited, reqVars, free_only, auxVars>>

\* proxy_with_httpx: the request is sent and no answer arrives
RouteTransportError(kind) ==
    /\ route.pc = "forward"
    /\ route' = [route EXCEPT
                   !.headers = ForwardHeaders(route.authorization,
                                              route.api_key),
                   !.pc = "done", !.transport = kind,
                   !.status = TransportErrorResponse(kind)]
    /\ km_ret' = NoRet
    /\ script' = OffScript
    /\ UNCHANGED <<kmVars, now, limited, reqVars, free_only, auxVars>>

\* check_httpx_err: POST /disable_key {key, reset_time_ms}
RouteReport ==
    /\ route.pc = "report"
    /\ ApplyDisableKey(route.api_key, route.reset)
    /\ LogDisable(route.api_key, route.reset)
    /\ route' = [route EXCEPT !.pc = "done"]
    /\ UNCHANGED <<now, limited, reqVars, free_only, auxVars>>

\* check_httpx_err: the POST fails; the exception is logged
RouteReportFails ==
    /\ route.pc = "report"
    /\ route' = [route EXCEPT !.pc = "done"]
    /\ km_ret' = NoRet
    /\ script' = OffScript
    /\ UNCHANGED <<kmVars, now, limited, reqVars, free_only, auxVars>>

\* ------------------------------------- free-only models filter: actions

\* body = remove_paid_models(body) on the body b of an upstream answer
FilterModels(b) ==
    /\ filt.pc = "idle"
    /\ LET ret == remove_paid_models(b)
       IN  filt' = [pc |-> "once", in |-> b, out |-> ret.body, prev |-> b,
                    raised |-> ret.raised]
    /\ UNCHANGED <<frontVars, sseVars, cacheVars>>

\* the body returned is filtered once more (a second proxy in front of this
\* one, or a client that sends a filtered list back through the filter)
FilterModelsAgain ==
    /\ filt.pc = "once"
    /\ ~filt.raised
    /\ LET ret == remove_paid_models(filt.out)
       IN  filt' = [filt EXCEPT !.pc = "twice", !.out = ret.body,
                                !.prev = filt.out, !.raised = ret.raised]
    /\ UNCHANGED <<frontVars, sseVars, cacheVars>>

\* ---------------------------------------------------- SSE relay: actions

\* proxy_with_httpx: upstream answered a streaming request with a status
\* below 400 and StreamingResponse starts to run sse_stream
SseOpen(counting) ==
    /\ sse.pc = "idle"
    /\ sse' = [sse EXCEPT !.pc = "streaming",
                          !.enable_token_counting = counting]
    /\ UNCHANGED <<frontVars, filterVars, TOKENS_RECEIVED, cacheVars>>

\* async for line in aiter_lines(): keep a JSON line, yield the line
SseLine(line) ==
    /\ sse.pc = "streaming"
    /\ Len(sse.upstream) < MaxLines
    /\ sse' = [sse EXCEPT !.upstream = Append(@, line),
                          !.last_json = KeepLine(@, line),
                          !.relayed = Append(@, line)]
    /\ UNCHANGED <<frontVars, filterVars, TOKENS_RECEIVED, cacheVars>>

\* the body ends, or reading it raises (the exception is logged); the
\* response is closed and the tokens of last_json are counted
SseEnd ==
    /\ sse.pc = "streaming"
    /\ sse' = [sse EXCEPT !.pc = "done"]
    /\ TOKENS_RECEIVED' =
          IF sse.last_json # NoLine /\ sse.enable_token_counting
          THEN TOKENS_RECEIVED + TokensOf(sse.last_json)
          ELSE TOKENS_RECEIVED
    /\ UNCHANGED <<frontVars, filterVars, cacheVars>>

\* --------------------------------------------- model filter cache: actions

\* ModelFilterService(http_client, cache_ttl_seconds)
ModelFilterServiceInit(ttl) ==
    /\ ~mf_built
    /\ mf_built' = TRUE
    /\ mf_cache_ttl' = ttl
    /\ mf_all_models' = << >>
    /\ mf_free_model_ids' = {}
    /\ mf_last_fetch_time' = 0
    /\ mf_ret' = NoRead
    /\ UNCHANGED <<frontVars, filterVars, sseVars>>

\* variant: the cache counts as stale when exactly ttl has elapsed
IsCacheStale_ge(t) == (t - mf_last_fetch_time) >= mf_cache_ttl

\* is_cache_stale = (time.time() - self._last_fetch_time) > self._cache_ttl
IsCacheStale(t) == (t - mf_last_fetch_time) > mf_cache_ttl

\* if not self._all_models or is_cache_stale
NeedsRefresh(t) == mf_all_models = << >> \/ IsCacheStale(t)

\* {m['id'] for m in models_data if m.get('id', '').endswith(':free')}
FreeIds(data) ==
    {data[i] : i \in {j \in 1..Len(data) : EndsWithFree(data[j])}}

\* the fields as they are when no refresh is made
Cached ==
    [models |-> mf_all_models, free |-> mf_free_model_ids,
     time |-> mf_last_fetch_time, raised |-> FALSE]

\* _refresh_cache at time t when the GET comes back with ans: the fields
\* after it, and whether an exception leaves it.  An httpx.HTTPError is
\* caught and only the time is set.  A body that is not JSON raises
\* JSONDecodeError from response.json(), which is not caught: nothing is
\* assigned.  An entry that is not an object raises AttributeError in the set
\* comprehension, after _all_models has been assigned.
refresh_cache(ans, t) ==
    CASE ans.kind = "ok" ->
            [models |-> ans.data, free |-> FreeIds(ans.data), time |-> t,
             raised |-> FALSE]
      [] IsHttpError(ans) -> [Cached EXCEPT !.time = t]
      [] ans.kind = "unparsable" -> [Cached EXCEPT !.raised = TRUE]
      [] OTHER -> [Cached EXCEPT !.models = ans.data, !.raised = TRUE]

\* get_models, get_free_model_ids or is_model_allowed: under the lock,
\* _ensure_cache_is_fresh refreshes when needed (ans is what upstream
\* answers then); the read is answered from the fields
CacheRead(op, ans) ==
    /\ mf_built
    /\ LET need == NeedsRefresh(now)
           f == IF need THEN refresh_cache(ans, now) ELSE Cached
       IN  /\ mf_all_models' = f.models
           /\ mf_free_model_ids' = f.free
           /\ mf_last_fetch_time' = f.time
           /\ mf_ret' = [op |-> op, fetched |-> need,
                         answer |-> IF need THEN ans.kind ELSE "none",
                         raised |-> f.raised, at |-> now]
    /\ UNCHANGED <<mf_built, mf_cache_ttl, frontVars, filterVars, sseVars>>

\* variant: a caller enters the critical section whether the lock is held
\* or not
CanEnter_always == TRUE

\* async with self._lock: the lock is free
CanEnter == mf_lock = NoCaller

\* _ensure_cache_is_fresh once a caller has the lock, call being its record:
\* the test is made under the lock; when a refresh is needed the caller keeps
\* the lock while it awaits the GET, otherwise the block is left and the read
\* answers from the cache
Enter(c, call) ==
    IF NeedsRefresh(now)
    THEN /\ mf_call' = [mf_call EXCEPT ![c] = [call EXCEPT !.pc = "fetching"]]
         /\ mf_lock' = c
    ELSE /\ mf_call' = [mf_call EXCEPT ![c] = [call EXCEPT !.pc = "done"]]
         /\ UNCHANGED mf_lock

\* a caller calls get_models, get_free_model_ids or is_model_allowed: it
\* enters at once when the lock is free and waits for it otherwise
CallerArrives(c) ==
    /\ mf_built
    /\ mf_call[c].pc \in {"idle", "done"}
    /\ IF CanEnter
       THEN Enter(c, NoCall)
       ELSE /\ mf_call' = [mf_call EXCEPT ![c] =
                              [pc |-> "waiting", fetched |-> FALSE,
                               blocked |-> TRUE]]
            /\ UNCHANGED mf_lock
    /\ UNCHANGED <<cacheVars, mf_last, baseVars, filterVars, sseVars>>

\* the lock is released and a waiting caller gets it
CallerWakes(c) ==
    /\ mf_call[c].pc = "waiting"
    /\ CanEnter
    /\ Enter(c, mf_call[c])
    /\ UNCHANGED <<cacheVars, mf_last, baseVars, filterVars, sseVars>>

\* the GET of the caller that holds the lock comes back with ans:
\* _refresh_cache assigns the fields and the lock is released
RefreshReturns(c, ans) ==
    /\ mf_call[c].pc = "fetching"
    /\ LET f == refresh_cache(ans, now)
       IN  /\ mf_all_models' = f.models
           /\ mf_free_model_ids' = f.free
           /\ mf_last_fetch_time' = f.time
    /\ mf_call' = [mf_call EXCEPT ![c].pc = "done", ![c].fetched = TRUE]
    /\ mf_lock' = IF mf_lock = c THEN NoCaller ELSE mf_lock
    /\ mf_last' = [kind |-> ans.kind, at |-> now]
    /\ UNCHANGED <<mf_built, mf_cache_ttl, mf_ret, baseVars, filterVars,
                   sseVars>>

\* ------------------------------------------------------------------ Next

Next ==
    \/ Tick
    \/ \E c \in Callers : CallerArrives(c)
    \/ \E c \in Callers : CallerWakes(c)
    \/ \E c \in Callers, ans \in UpstreamAnswers : RefreshReturns(c, ans)
    \/ GetNextKeyEndpoint
    \/ \E k \in KeyUniverse, h \in ResetTimes : DisableKeyEndpoint(k, h)
    \/ \E k \in KeyUniverse, h \in ResetTimes : DisableKeyObserved(k, h)
    \/ MetricsEndpoint
    \/ \E r \in Requests, s \in BOOLEAN, a \in Authorizations, m \in Models :
          Start(r, s, a, m)
    \/ \E r \in Requests : ChatAcquireOk(r)
    \/ \E r \in Requests : ChatAcquireFail(r)
    \/ \E r \in Requests : UpstreamOk(r)
    \/ \E r \in Requests, st \in ErrorStatuses, h \in ResetTimes :
          UpstreamHttpError(r, st, h)
    \/ \E r \in Requests, kind \in TransportErrors :
          UpstreamRequestError(r, kind)
    \/ \E r \in Requests : ChatPenalize(r)
    \/ \E r \in Requests : StreamChunk(r)
    \/ \E r \in Requests : StreamEnd(r)
    \/ \E r \in Requests : StreamError(r)
    \/ \E p \in Paths, a \in Authorizations, s \in BOOLEAN :
          ProxyEndpoint(p, a, s)
    \/ RouteGetKey
    \/ RouteKmsDown
    \/ \E st \in RouteStatuses, rl \in BOOLEAN, h \in ResetTimes :
          RouteForward(st, rl, h)
    \/ \E kind \in TransportErrors : RouteTransportError(kind)
    \/ RouteReport
    \/ RouteReportFails
    \/ \E b \in Bodies : FilterModels(b)
    \/ FilterModelsAgain
    \/ \E counting \in BOOLEAN : SseOpen(counting)
    \/ \E line \in Lines : SseLine(line)
    \/ SseEnd
    \/ \E ttl \in 0..MaxTtl : ModelFilterServiceInit(ttl)
    \/ \E op \in ReadOps, ans \in UpstreamAnswers : CacheRead(op, ans)

Spec == Init /\ [][Next]_vars

\* The Key Manager driven through its endpoints: any sequence of acquire
\* calls, penalize calls and time advances
InitKM == Init /\ limited = {}

NextKM ==
    \/ Tick
    \/ GetNextKeyEndpoint
    \/ \E k \in KeyUniverse : DisableKeyEndpoint(k, 0)
    \/ MetricsEndpoint

SpecKM == InitKM /\ [][NextKM]_vars

\* One chat-completion request running through the retry loop
NextChat ==
    \/ Tick
    \/ \E r \in Requests, s \in BOOLEAN :
          Start(r, s, Bearer(access_key), "free")
    \/ \E r \in Requests : ChatAcquireOk(r)
    \/ \E r \in Requests : ChatAcquireFail(r)
    \/ \E r \in Requests : UpstreamOk(r)
    \/ \E r \in Requests, st \in ErrorStatuses : UpstreamHttpError(r, st, 0)
    \/ \E r \in Requests, kind \in TransportErrors :
          UpstreamRequestError(r, kind)
    \/ \E r \in Requests : ChatPenalize(r)
    \/ \E r \in Requests : StreamChunk(r)
    \/ \E r \in Requests : StreamEnd(r)
    \/ \E r \in Requests : StreamError(r)

SpecChat == Init /\ [][NextChat]_vars

\* a step of the request once it has entered the retry loop
ChatStep ==
    \/ \E r \in Requests : ChatAcquireOk(r)
    \/ \E r \in Requests : ChatAcquireFail(r)
    \/ \E r \in Requests : UpstreamOk(r)
    \/ \E r \in Requests, st \in ErrorStatuses : UpstreamHttpError(r, st, 0)
    \/ \E r \in Requests, kind \in TransportErrors :
          UpstreamRequestError(r, kind)
    \/ \E r \in Requests : ChatPenalize(r)
    \/ \E r \in Requests : StreamChunk(r)
    \/ \E r \in Requests : StreamEnd(r)
    \/ \E r \in Requests : StreamError(r)

\* The event loop keeps running the request's coroutine, and every upstream
\* call returns or raises (the HTTP client has a timeout)
SpecChatFair == SpecChat /\ WF_vars(ChatStep)

\* One chat request with every client input (Authorization value, model)
\* and every reset timestamp in the body of a 429
NextGate ==
    \/ Tick
    \/ \E r \in Requests, s \in BOOLEAN, a \in Authorizations, m \in Models :
          Start(r, s, a, m)
    \/ \E r \in Requests : ChatAcquireOk(r)
    \/ \E r \in Requests : ChatAcquireFail(r)
    \/ \E r \in Requests : UpstreamOk(r)
    \/ \E r \in Requests, st \in ErrorStatuses, h \in ResetTimes :
          UpstreamHttpError(r, st, h)
    \/ \E r \in Requests, kind \in TransportErrors :
          UpstreamRequestError(r, kind)
    \/ \E r \in Requests : ChatPenalize(r)
    \/ \E r \in Requests : StreamChunk(r)
    \/ \E r \in Requests : StreamEnd(r)
    \/ \E r \in Requests : StreamError(r)

\* a configuration with the full cooldown and without the "same" option
InitFront == Init /\ ~use_last_key /\ cooldown_seconds = MaxCooldown

SpecGate == InitFront /\ [][NextGate]_vars

\* The Key Manager driven through its endpoints with every reset_time_ms
NextKMHint ==
    \/ Tick
    \/ GetNextKeyEndpoint
    \/ \E k \in KeyUniverse, h \in ResetTimes : DisableKeyEndpoint(k, h)
    \/ MetricsEndpoint

SpecKMHint == InitKM /\ [][NextKMHint]_vars

\* The Key Manager called with repeated disable_key calls for the same key
NextKMRepeat ==
    \/ Tick
    \/ GetNextKeyEndpoint
    \/ \E k \in KeyUniverse, h \in ResetTimes : DisableKeyObserved(k, h)
    \/ MetricsEndpoint

InitKMRepeat == InitKM /\ ~use_last_key /\ strategy = "round-robin"

SpecKMRepeat == InitKMRepeat /\ [][NextKMRepeat]_vars

\* Both front ends, each serving one request: the chat endpoint and the
\* generic proxy route, over round-robin selection
NextFront ==
    \/ \E r \in Requests, s \in BOOLEAN, a \in Authorizations :
          Start(r, s, a, "free")
    \/ \E r \in Requests : ChatAcquireOk(r)
    \/ \E r \in Requests : ChatAcquireFail(r)
    \/ \E r \in Requests : UpstreamOk(r)
    \/ \E r \in Requests, st \in ErrorStatuses : UpstreamHttpError(r, st, 0)
    \/ \E r \in Requests, kind \in TransportErrors :
          UpstreamRequestError(r, kind)
    \/ \E r \in Requests : ChatPenalize(r)
    \/ \E r \in Requests : StreamChunk(r)
    \/ \E r \in Requests : StreamEnd(r)
    \/ \E r \in Requests : StreamError(r)
    \/ \E p \in Paths, a \in Authorizations, s \in BOOLEAN :
          ProxyEndpoint(p, a, s)
    \/ RouteGetKey
    \/ RouteKmsDown
    \/ \E st \in RouteStatuses, rl \in BOOLEAN, h \in ResetTimes :
          RouteForward(st, rl, h)
    \/ \E kind \in TransportErrors : RouteTransportError(kind)
    \/ RouteReport
    \/ RouteReportFails

\* the default configuration: free_only off, round-robin selection
InitDefault == InitFront /\ ~free_only /\ strategy = "round-robin"

SpecFront == InitDefault /\ [][NextFront]_vars

\* The free-only filter applied to every models-list body, and once more to
\* what it returned
NextFilter ==
    \/ \E b \in Bodies : FilterModels(b)
    \/ FilterModelsAgain

SpecFilter == InitDefault /\ [][NextFilter]_vars

\* One SSE stream relayed by the generic proxy route, with every sequence of
\* up to MaxLines upstream lines
NextSse ==
    \/ \E counting \in BOOLEAN : SseOpen(counting)
    \/ \E line \in Lines : SseLine(line)
    \/ SseEnd

SpecSse == InitDefault /\ [][NextSse]_vars

\* The model filter cache: construction, reads with every upstream answer,
\* and the clock
NextCache ==
    \/ Tick
    \/ \E ttl \in 0..MaxTtl : ModelFilterServiceInit(ttl)
    \/ \E op \in ReadOps, ans \in UpstreamAnswers : CacheRead(op, ans)

SpecCache == InitDefault /\ [][NextCache]_vars

\* The Model Filter Cache read by concurrent callers
NextCacheLock ==
    \/ Tick
    \/ \E ttl \in 0..MaxTtl : ModelFilterServiceInit(ttl)
    \/ \E c \in Callers : CallerArrives(c)
    \/ \E c \in Callers : CallerWakes(c)
    \/ \E c \in Callers, ans \in UpstreamAnswers : RefreshReturns(c, ans)

SpecCacheLock == InitDefault /\ [][NextCacheLock]_vars

\* ============================================================ properties

Index(k) == CHOOSE i \in 1..Len(keys) : keys[i] = k

\* pool keys that are not cooling at time t
NotCooling(du, t) == {k \in Pool : ~IsCooling(du, k, t)}

\* the step is a get_next_key call that returned a key
Acquired == km_ret'.op = "acquire"

\* C4: every key get_next_key returns is a key of the configured pool that,
\* when the call returns, has no disabled_until entry or one that is <= now
C4_AcquiredKeyIsAvailable ==
    km_ret.op = "acquire" =>
        /\ km_ret.key \in Pool
        /\ \/ km_ret.key \notin DOMAIN disabled_until
           \/ disabled_until[km_ret.key] <= now

\* C4 witness: a key was returned while another pool key was cooling and
\* the last key was preferred
C4_Witness ==
    /\ km_ret.op = "acquire"
    /\ use_last_key
    /\ \E k \in Pool : IsCooling(disabled_until, k, now)
    /\ now > 1

\* C5: while a key is cooling (penalized with a deadline still in the
\* future) no get_next_key call returns it, and when it is the only pool key
\* the call fails with the 503 "all keys disabled" error
C5_CoolingKeyNotAcquired ==
    [][ /\ \A k \in Pool :
             (IsCooling(disabled_until, k, now) /\ Acquired)
                => km_ret'.key # k
        /\ (/\ Len(keys) = 1
            /\ IsCooling(disabled_until, keys[1], now)
            /\ km_ret'.op \in {"acquire", "fail", "error"})
              => km_ret'.op = "fail"
      ]_vars

\* C5 witness: the only pool key was penalized and the next call failed
C5_Witness ==
    /\ Len(keys) = 1
    /\ km_ret.op = "fail"
    /\ IsCooling(disabled_until, keys[1], now)

\* C6: active keys plus cooling keys is the number of configured keys, for
\* the counts and for the two gauges
C6_ActivePlusCoolingIsTotal ==
    /\ ActiveCount(disabled_until, now) + CooldownCount(disabled_until, now)
          = Len(keys)
    /\ ACTIVE_KEYS + COOLDOWN_KEYS = Len(keys)

\* C6 witness: the gauges were written with a key cooling and have since
\* gone stale (the key's deadline passed), and still sum to the total
C6_Witness ==
    /\ COOLDOWN_KEYS >= 1
    /\ ACTIVE_KEYS >= 1
    /\ COOLDOWN_KEYS # CooldownCount(disabled_until, now)

\* distance of a pool key from the cursor, in probing order
Offset(k) == (Index(k) - 1 - current_index) % Len(keys)

S1S2 == <<"A", "B", "C", "A", "disable", "C", "A", "C">>

\* C7: round-robin without use_last returns the first available key at or
\* after the cursor in configured order, wrapping, and leaves the cursor
\* just past it; with two or more keys available it never returns the key
\* returned by the previous call; and from start-up with keys A,B,C the
\* calls return A,B,C,A and, once B is disabled, C,A,C
C7_RoundRobinOrder ==
    /\ [][ (Acquired /\ strategy = "round-robin" /\ ~use_last_key) =>
             LET avail == NotCooling(disabled_until, now)
                 k == km_ret'.key
             IN  /\ k \in avail
                 /\ \A j \in avail : Offset(k) <= Offset(j)
                 /\ current_index' = Index(k) % Len(keys)
                 /\ Cardinality(avail) >= 2 => k # last_key
         ]_vars
    /\ [](( /\ keys = <<"A", "B", "C">>
            /\ strategy = "round-robin"
            /\ ~use_last_key
            /\ cooldown_seconds > 0
            /\ script # OffScript )
          => script = SubSeq(S1S2, 1, Len(script)))

\* C7 witness: the whole sequence A,B,C,A, disable B, C,A,C has been played
C7_Witness ==
    /\ script = S1S2
    /\ strategy = "round-robin"
    /\ ~use_last_key
    /\ IsCooling(disabled_until, "B", now)

\* ------------------------------------------------ the chat retry loop

KnownStrategies == {"round-robin", "first", "random"}

\* request r is over and upstream answered each of its attempts 200 or 429
OnlyOkOr429(r) ==
    /\ pc[r] = "done"
    /\ \/ last_error[r].kind = "none"
       \/ /\ last_error[r].kind = "http"
          /\ last_error[r].status = RATE_LIMIT_ERROR_CODE

\* the client of r has the completion, or the whole upstream stream
Succeeded(r) == result[r].kind \in {"completion", "stream_complete"}

C2_RateLimitedThenRetried ==
    /\ [][ \A r \in Requests :
             /\ (pc[r] = "attempt" /\ last_error'[r] # last_error[r]
                 /\ last_error'[r].status = RATE_LIMIT_ERROR_CODE)
                   => pc'[r] = "penalize"
             /\ (pc[r] = "penalize" /\ pc'[r] # "penalize")
                   => /\ km_ret'.op = "penalize"
                      /\ km_ret'.key = api_key[r]
                      /\ api_key[r] = last_error[r].key
                      /\ disabled_until'[api_key[r]] = now + cooldown_seconds
                      /\ (attempt[r] + 1 < max_retries) => pc'[r] = "acquire"
             /\ (pc[r] = "acquire" /\ pc'[r] = "attempt")
                   => /\ km_ret'.op = "acquire"
                      /\ api_key'[r] = km_ret'.key
                      /\ n_attempts'[r] = n_attempts[r] + 1
         ]_vars
    /\ [](\A r \in Requests :
            (/\ pc[r] = "done"
             /\ ~is_streaming[r]
             /\ Len(keys) = 2
             /\ Cardinality(limited) = 1
             /\ strategy \in KnownStrategies
             /\ cooldown_seconds > 0
             /\ ~reenabled[r]
             /\ OnlyOkOr429(r))
               => /\ result[r].kind = "completion"
                  /\ result[r].status = 200
                  /\ result[r].key \notin limited
                  /\ result[r].attempt = n_attempts[r] - 1
                  /\ last_error[r].kind = "http" =>
                       /\ result[r].attempt = 1
                       /\ last_error[r].key \in limited
                       /\ last_error[r].key \in DOMAIN disabled_until
                       /\ disabled_until[last_error[r].key]
                             \in (1 + cooldown_seconds)..(now + cooldown_seconds))

\* C2 witness: two keys, the first attempt was answered 429, the second 200,
\* and the first key is cooling when the completion is returned
C2_Witness ==
    \E r \in Requests :
        /\ Len(keys) = 2
        /\ result[r].kind = "completion"
        /\ result[r].attempt = 1
        /\ last_error[r].status = RATE_LIMIT_ERROR_CODE
        /\ result[r].key # last_error[r].key
        /\ IsCooling(disabled_until, last_error[r].key, now)

\* the last attempt of r ended with a non-429 HTTP status or a transport
\* error
EndedWithOtherError(r) ==
    \/ last_error[r].kind = "request"
    \/ /\ last_error[r].kind = "http"
       /\ last_error[r].status # RATE_LIMIT_ERROR_CODE

\* C3: once an attempt has ended with a non-429 HTTP error or a transport
\* error the request is over: no further key is acquired and no further
\* upstream attempt is made, streaming or not
C3_NoRetryOnOtherErrors ==
    [][ \A r \in Requests :
          EndedWithOtherError(r)' =>
              /\ pc'[r] = "done"
              /\ EndedWithOtherError(r) =>
                    /\ n_acquired'[r] = n_acquired[r]
                    /\ n_attempts'[r] = n_attempts[r]
                    /\ last_error'[r] = last_error[r]
      ]_vars

\* C3 witness: a streaming request was answered 429, retried, and its second
\* attempt was answered 500, which ended it
C3_Witness ==
    \E r \in Requests :
        /\ is_streaming[r]
        /\ pc[r] = "done"
        /\ last_error[r].kind = "http"
        /\ last_error[r].status = 500
        /\ n_attempts[r] = 2

\* C8: the chunks yielded to a streaming client all come from one attempt,
\* the current one, which upstream accepted; after the first chunk no key
\* is acquired and no attempt is made; a transport error while the body is
\* read ends the stream
C8_StreamFromSingleAttempt ==
    /\ [](\A r \in Requests :
            /\ Cardinality(stream_src[r]) <= 1
            /\ yielded[r] > 0 =>
                 /\ is_streaming[r]
                 /\ stream_src[r] = {attempt[r]}
                 /\ api_key[r] \notin limited
                 /\ ~(last_error[r].kind = "http"
                      /\ last_error[r].attempt = attempt[r]))
    /\ [][ \A r \in Requests :
             /\ yielded[r] > 0 =>
                  /\ n_acquired'[r] = n_acquired[r]
                  /\ n_attempts'[r] = n_attempts[r]
                  /\ attempt'[r] = attempt[r]
                  /\ pc'[r] \in {"streaming", "done"}
             /\ (pc[r] = "streaming" /\ last_error'[r] # last_error[r])
                  => pc'[r] = "done"
         ]_vars

\* C8 witness: a stream that started on the second attempt, after a 429,
\* was cut by a transport error after its chunks were yielded
C8_Witness ==
    \E r \in Requests :
        /\ result[r].kind = "stream_cut"
        /\ yielded[r] = MaxChunks
        /\ stream_src[r] = {1}

\* C9: a request acquires at most max_retries keys and makes at most
\* max_retries attempts; when every one of them was answered 429 the
\* non-streaming client gets that last 429 with its body; an exhausted
\* request gets 503 only if no HTTP status was captured; and a request that
\* entered the loop ends
C9_BoundedAttempts ==
    /\ [](\A r \in Requests :
            /\ n_acquired[r] <= max_retries
            /\ n_attempts[r] <= max_retries
            /\ (/\ pc[r] = "done"
                /\ ~is_streaming[r]
                /\ n_attempts[r] = max_retries
                /\ last_error[r].kind = "http"
                /\ last_error[r].status = RATE_LIMIT_ERROR_CODE
                /\ last_error[r].attempt = max_retries - 1)
                  => /\ result[r].kind = "exhausted"
                     /\ result[r].status = RATE_LIMIT_ERROR_CODE
                     /\ result[r].key = last_error[r].key
                     /\ result[r].attempt = last_error[r].attempt
            /\ (result[r].kind = "exhausted" /\ result[r].status = 503)
                  => last_error[r].kind # "http")
    /\ \A r \in Requests : (pc[r] = "acquire") ~> (pc[r] = "done")

\* C9 witness: ten attempts, ten 429 answers, the client got the last one
C9_Witness ==
    \E r \in Requests :
        /\ result[r].kind = "exhausted"
        /\ result[r].status = RATE_LIMIT_ERROR_CODE
        /\ n_acquired[r] = max_retries
        /\ n_attempts[r] = max_retries

\* C10: when get_next_key fails because every key is cooling, the request
\* ends in that step, with no time passing and no attempt made: status 503
\* for a non-streaming request, and a stream that ends with no chunk
\* yielded; nothing is acquired or attempted afterwards
C10_AllKeysCoolingEndsRequest ==
    [][ \A r \in Requests :
          /\ (pc[r] = "acquire" /\ km_ret'.op = "fail") =>
                /\ pc'[r] = "done"
                /\ now' = now
                /\ n_attempts'[r] = n_attempts[r]
                /\ yielded'[r] = 0
                /\ IF is_streaming[r]
                   THEN result'[r].kind = "stream_no_key"
                   ELSE result'[r].kind = "no_key" /\ result'[r].status = 503
          /\ result[r].kind \in {"no_key", "stream_no_key"} =>
                /\ pc'[r] = "done"
                /\ n_acquired'[r] = n_acquired[r]
                /\ n_attempts'[r] = n_attempts[r]
                /\ yielded'[r] = yielded[r]
      ]_vars

\* C10 witness: the request penalized every pool key in turn and its next
\* get_next_key failed with all keys cooling
C10_Witness ==
    \E r \in Requests :
        /\ result[r].kind = "no_key"
        /\ result[r].status = 503
        /\ km_ret.op = "fail"
        /\ n_attempts[r] = Len(keys)
        /\ \A k \in Pool : IsCooling(disabled_until, k, now)

\* -------------------------------------------- errors, gating and headers

\* C11: when get_next_key fails with every key cooling, the failure has the
\* wait min(disabled_until) - now, and the 503 the non-streaming client gets
\* includes that wait
C11_WaitHintInResponse ==
    \A r \in Requests :
        (result[r].kind = "no_key" /\ km_ret.op = "fail") =>
            /\ result[r].status = 503
            /\ km_ret.wait # {}
            /\ result[r].wait = km_ret.wait

\* C12: in free-only mode a chat request whose model is not in the free set
\* is rejected with 403 before any key is acquired and before any upstream
\* attempt
C12_FreeOnlyGate ==
    \A r \in Requests :
        (free_only /\ pc[r] # "idle" /\ ~is_model_allowed(model[r])) =>
            /\ pc[r] = "done"
            /\ result[r].status = 403
            /\ n_acquired[r] = 0
            /\ n_attempts[r] = 0

\* C13: a request to a non-public path, the chat endpoint included, whose
\* Authorization value is missing or is not the access key is answered 401,
\* acquires no key and sends nothing upstream
C13_AccessKeyRequired ==
    /\ \A r \in Requests :
          (pc[r] # "idle" /\ ~verify_access_key(authorization[r])) =>
              /\ pc[r] = "done"
              /\ result[r].status = 401
              /\ n_acquired[r] = 0
              /\ n_attempts[r] = 0
    /\ (/\ route.pc # "idle"
        /\ ~route.is_public
        /\ ~verify_access_key(route.authorization)) =>
            /\ route.pc = "done"
            /\ route.status = 401
            /\ route.api_key = ""
            /\ route.headers = << >>

\* the path of the generic route's request starts with a public prefix
OnPublicPath ==
    /\ route.pc # "idle"
    /\ \E ep \in public_endpoints :
          StartsWith(<<"/api/v1">> \o route.path, ep)

Lower(n) == IF n = "Authorization" THEN "authorization" ELSE n

\* the values of the Authorization headers of a header dict
AuthorizationValues(h) ==
    {h[n] : n \in {x \in DOMAIN h : Lower(x) = "authorization"}}

\* C14: a request on a public path is served whatever its Authorization
\* value, without a 401 and without asking for a key; no step it takes
\* changes the Key Manager (cursor, last key, cooldowns); the upstream
\* request has no Authorization header; and a 200 from upstream is a 200
\* for a client that sent no Authorization header
C14_PublicPathBypass ==
    /\ [](OnPublicPath =>
            /\ route.is_public
            /\ route.pc \in {"forward", "done"}
            /\ route.status # 401
            /\ route.api_key = ""
            /\ AuthorizationValues(route.headers) = {}
            /\ (route.pc = "done" /\ route.upstream_status = 200)
                  => route.status = 200)
    /\ [][ (route' # route /\ OnPublicPath') =>
             /\ current_index' = current_index
             /\ last_key' = last_key
             /\ disabled_until' = disabled_until
             /\ km_ret' = NoRet
         ]_vars

\* C14 witness: a request below the models prefix, sent without an
\* Authorization header, was answered 200 while a pool key was cooling
C14_Witness ==
    /\ route.pc = "done"
    /\ route.path = <<"/models", "x">>
    /\ route.authorization = << >>
    /\ route.status = 200
    /\ DOMAIN route.headers # {}
    /\ \E k \in Pool : IsCooling(disabled_until, k, now)

C16_PenalizeDeadline ==
    [][ /\ km_ret'.op = "penalize" =>
             LET h == km_ret'.reset
                 hinted == h \div 1000
             IN  /\ disabled_until'[km_ret'.key] = km_ret'.until
                 /\ km_ret'.until =
                       IF h # 0 /\ hinted <= MaxTimestamp /\ hinted > now
                       THEN hinted
                       ELSE now + cooldown_seconds
        /\ km_ret'.op = "acquire" =>
             ~IsCooling(disabled_until, km_ret'.key, now)
        /\ km_ret'.op = "fail" =>
             \A k \in Pool : IsCooling(disabled_until, k, now)
      ]_vars

\* C16 witness: a pool key was penalized with a hint later than
\* now + cooldown_seconds and its deadline is the hinted time
C16_Witness ==
    /\ km_ret.op = "penalize"
    /\ km_ret.key \in Pool
    /\ km_ret.reset # 0
    /\ km_ret.until = km_ret.reset \div 1000
    /\ km_ret.until > now + cooldown_seconds
    /\ IsCooling(disabled_until, km_ret.key, now)

\* C17: when an attempt of the chat retry loop is answered 429 with a reset
\* timestamp in the future in its body, the key is penalized until that
\* time
C17_ResetHintPassedToPenalize ==
    [][ \A r \in Requests :
          (/\ pc[r] = "penalize"
           /\ km_ret'.op = "penalize"
           /\ last_error[r].reset \div 1000 > now
           /\ last_error[r].reset \div 1000 <= MaxTimestamp) =>
              disabled_until'[api_key[r]] = last_error[r].reset \div 1000
      ]_vars

\* C18: a streaming chat request whose attempt was answered with a non-429
\* HTTP error gives the client that status, as a non-streaming one does
C18_StreamErrorPropagated ==
    \A r \in Requests :
        (/\ is_streaming[r]
         /\ pc[r] = "done"
         /\ last_error[r].kind = "http"
         /\ last_error[r].status # RATE_LIMIT_ERROR_CODE) =>
            /\ result[r].status = last_error[r].status
            /\ result[r].key = last_error[r].key

\* C19: a non-streaming chat request whose attempt was answered with a
\* non-429 HTTP error gives the client exactly that status (never 200),
\* raised from the answer of that attempt (its key and attempt number are
\* those of the error), and that attempt was its last
C19_ErrorStatusPropagated ==
    \A r \in Requests :
        (/\ ~is_streaming[r]
         /\ pc[r] = "done"
         /\ last_error[r].kind = "http"
         /\ last_error[r].status # RATE_LIMIT_ERROR_CODE) =>
            /\ result[r].kind = "upstream_error"
            /\ result[r].status = last_error[r].status
            /\ result[r].status >= 400
            /\ result[r].key = last_error[r].key
            /\ result[r].attempt = last_error[r].attempt
            /\ n_attempts[r] = last_error[r].attempt + 1

\* C19 witness: the second attempt, after a 429, was answered 400 and the
\* client got 400
C19_Witness ==
    \E r \in Requests :
        /\ result[r].kind = "upstream_error"
        /\ result[r].status = 400
        /\ n_attempts[r] = 2

\* C20: on the generic proxy route an upstream answer with status >= 400
\* reaches the client with that status, and when it is a rate-limit error
\* the key used is given a cooldown by the Key Manager
C20_RouteErrorStatusForwarded ==
    (route.pc = "done" /\ route.upstream_status >= 400) =>
        /\ route.status = route.upstream_status
        /\ route.upstream_status = RATE_LIMIT_ERROR_CODE =>
              route.api_key \in DOMAIN disabled_until

\* ------------------------------------- transport errors, configuration

\* C21: a transport error on a forwarded request, in the chat retry loop or
\* on the generic proxy route, is answered 503 for a connect failure, 504
\* for a timeout and 500 otherwise
C21_TransportErrorMapping ==
    /\ \A r \in Requests :
          (pc[r] = "done" /\ last_error[r].kind = "request"
           /\ yielded[r] = 0) =>
              result[r].status = TransportErrorResponse(last_error[r].exc)
    /\ (route.pc = "done" /\ route.transport # "none") =>
          route.status = TransportErrorResponse(route.transport)

\* C22: a Key Manager with a strategy outside round-robin, first and random
\* is never in service: no get_next_key call fails at run time because of
\* the strategy, and no client request is answered 503 for that reason
C22_UnknownStrategyRejectedAtConstruction ==
    /\ km_ret.op # "error"
    /\ \A r \in Requests :
          (strategy \notin KnownStrategies /\ pc[r] = "done") =>
              result[r].status # 503

\* ------------------------------------------- key lifecycle and selection

\* the step is a get_next_key call, whatever its outcome
GetNextKeyCalled == km_ret'.op \in {"acquire", "fail", "error"}

\* C26: a get_next_key call deletes the entry of every pool key whose
\* deadline is <= now and keeps every other entry; a key whose deadline has
\* been reached counts as available to that call, so the call does not fail
\* for lack of keys; after a call that returned a key no pool key has an
\* entry with a deadline <= the now of that call
C26_ExpiredKeysSwept ==
    [][ GetNextKeyCalled =>
          /\ \A k \in Pool :
                (k \in DOMAIN disabled_until /\ disabled_until[k] <= now)
                    => /\ k \notin DOMAIN disabled_until'
                       /\ km_ret'.op # "fail"
          /\ \A k \in DOMAIN disabled_until :
                (disabled_until[k] > now \/ k \notin Pool)
                    => /\ k \in DOMAIN disabled_until'
                       /\ disabled_until'[k] = disabled_until[k]
          /\ DOMAIN disabled_until' \subseteq DOMAIN disabled_until
          /\ km_ret'.op = "acquire" =>
                \A k \in Pool \cap DOMAIN disabled_until' :
                    disabled_until'[k] > now
      ]_vars

\* C26 witness: pool key "B" was penalized after four acquires, its deadline
\* was reached, and the next acquire deleted its entry
C26_Witness ==
    /\ script # OffScript
    /\ Len(script) = 6
    /\ script[5] = "disable"
    /\ "B" \in Pool
    /\ km_ret.op = "acquire"
    /\ "B" \notin DOMAIN disabled_until

\* C27: with the "same" option on, a get_next_key call made while last_key
\* is available returns last_key and leaves current_index unchanged, for
\* every strategy; a different key is returned only when last_key is unset
\* or cooling
C27_SameOptionPrefersLastKey ==
    [][ (GetNextKeyCalled /\ use_last_key) =>
          /\ last_key \in AvailableKeys(disabled_until, now) =>
                /\ km_ret'.op = "acquire"
                /\ km_ret'.key = last_key
                /\ last_key' = last_key
                /\ current_index' = current_index
          /\ (km_ret'.op = "acquire" /\ km_ret'.key # last_key) =>
                \/ last_key = None
                \/ IsCooling(disabled_until, last_key, now)
      ]_vars

\* C27 witness: round-robin over at least two keys with the option on; the
\* second acquire returned the key of the first again and the cursor stayed
\* behind that key
C27_Witness ==
    /\ use_last_key
    /\ strategy = "round-robin"
    /\ Len(keys) >= 2
    /\ script = <<"A", "A">>
    /\ km_ret.op = "acquire"
    /\ km_ret.key = "A"
    /\ current_index = 1

\* the available key of smallest configured index
FirstAvailable(avail) ==
    keys[CHOOSE i \in 1..Len(keys) :
            /\ keys[i] \in avail
            /\ \A j \in 1..(i - 1) : keys[j] \notin avail]

\* C28: with round-robin or first a get_next_key call has one possible
\* outcome in a given Key Manager state, and with first the key returned is
\* the available key of smallest configured index
C28_SelectionDeterministic ==
    [][ (GetNextKeyCalled /\ strategy \in {"round-robin", "first"}) =>
          /\ Cardinality(get_next_key) = 1
          /\ (/\ strategy = "first"
              /\ km_ret'.op = "acquire"
              /\ ~(use_last_key
                   /\ last_key \in AvailableKeys(disabled_until, now))) =>
                km_ret'.key =
                    FirstAvailable(AvailableKeys(disabled_until, now))
      ]_vars

\* ----------------------------------------------- free-only models filter

\* the entry's pricing has every checked field equal to the string "0"
AllPricesZero(m) ==
    /\ m.shape = "dict"
    /\ m.pricing.shape = "dict"
    /\ \A k \in PRICES_TO_CHECK : m.pricing.fields[k] = "0"

\* the body is a JSON object whose "data" is a list
HasDataList(b) ==
    b.wellformed /\ b.doc.type = "object" /\ b.doc.data.kind = "list"

\* C23: the filter keeps exactly the entries of data whose pricing has all
\* six fields equal to "0"; it returns the body with the filtered list in
\* place of data when that list is not empty, and the body unchanged in
\* every other case, whatever the body is
C23_FilterKeepsFreeModels ==
    filt.pc = "once" =>
        LET kept == IF HasDataList(filt.in)
                    THEN SelectSeq(filt.in.doc.data.items, AllPricesZero)
                    ELSE << >>
        IN  /\ ~filt.raised
            /\ IF kept # << >>
               THEN /\ HasDataList(filt.out)
                    /\ filt.out.doc.data.items = kept
               ELSE filt.out = filt.in

\* C24: filtering a body the filter returned gives back exactly that body
C24_FilterIdempotent ==
    filt.pc = "twice" =>
        /\ ~filt.raised
        /\ filt.out = filt.prev

\* C24 witness: a list of a paid and a free model in another layout was cut
\* to the free model, and the second pass returned the same bytes
C24_Witness ==
    /\ filt.pc = "twice"
    /\ HasDataList(filt.in)
    /\ filt.in.layout = "other"
    /\ Len(filt.in.doc.data.items) = 2
    /\ Len(filt.prev.doc.data.items) = 1
    /\ filt.prev # filt.in
    /\ filt.out = filt.prev

\* ----------------------------------------------------------- SSE relay

\* the lines of sq that carry usage
RECURSIVE UsageLines(_)
UsageLines(sq) ==
    IF sq = << >>
    THEN << >>
    ELSE LET rest == UsageLines(Tail(sq))
         IN  IF Head(sq).kind = "json" /\ Head(sq).usage # {}
             THEN <<Head(sq)>> \o rest
             ELSE rest

\* usage.completion_tokens of the last line of sq that carries usage
LastUsageTokens(sq) ==
    LET u == UsageLines(sq)
    IN  IF u = << >> THEN 0 ELSE TokensOf(u[Len(u)])

\* C25: with token counting on, when a relayed stream has ended every
\* upstream line has been relayed in order and tokens_received_total has
\* grown by the completion_tokens of the last event that carries usage
C25_StreamTokensCounted ==
    (sse.pc = "done" /\ sse.enable_token_counting) =>
        /\ sse.relayed = sse.upstream
        /\ TOKENS_RECEIVED = LastUsageTokens(sse.upstream)

\* --------------------------------------------------- model filter cache

\* the step is a read of the cache
CacheReadStep == mf_built /\ now' = now /\ mf_ret'.op \in ReadOps

C30_FailedRefreshKeepsCache ==
    [][ (CacheReadStep /\ mf_ret'.fetched /\ mf_ret'.answer # "ok") =>
          /\ mf_all_models' = mf_all_models
          /\ mf_free_model_ids' = mf_free_model_ids
          /\ mf_last_fetch_time' = now
      ]_vars

\* the answers with which a refresh fails
FailedAnswers == {"transport", "status", "unparsable", "entries"}

\* C31: when the last read made a refresh that failed, a read made no more
\* than ttl after that failure makes no upstream request, whatever the
\* cache held before the failure
C31_NoRefreshStormAfterFailure ==
    [][ (/\ CacheReadStep
         /\ mf_ret.fetched
         /\ mf_ret.answer \in FailedAnswers
         /\ now - mf_ret.at <= mf_cache_ttl) =>
            ~mf_ret'.fetched
      ]_vars

\* C40: in every state of the cache the free ids are exactly the ids of the
\* cached models that end with ":free", also after a refresh that fails or
\* raises part-way through
C40_FreeIdsMatchModels ==
    mf_built => mf_free_model_ids = FreeIds(mf_all_models)

\* C35: a get_next_key call that fails because every pool key is cooling
\* changes nothing: the cursor, the last selected key, every disabled_until
\* entry and the two gauges are after the call what they were before it
C35_FailedAcquireChangesNothing ==
    [][ (GetNextKeyCalled /\ km_ret'.op = "fail") =>
            /\ current_index' = current_index
            /\ last_key' = last_key
            /\ disabled_until' = disabled_until
            /\ ACTIVE_KEYS' = ACTIVE_KEYS
            /\ COOLDOWN_KEYS' = COOLDOWN_KEYS
      ]_vars

\* a failed call made while a key outside the pool has an entry whose
\* deadline has passed, after an earlier call succeeded
C35_Witness ==
    /\ km_ret.op = "fail"
    /\ last_key # None
    /\ \E k \in DOMAIN disabled_until : k \notin Pool /\ disabled_until[k] <= now

\* C36: disable_key(k, hint) on a key that is already cooling stores the
\* newly computed deadline whatever the old one was (earlier or later than
\* it), changes no other key's entry, and leaves cursor and last key alone
C36_PenalizeLastWriteWins ==
    [][ (km_ret'.op = "penalize" /\ IsCooling(disabled_until, km_ret'.key, now)) =>
            LET k == km_ret'.key
            IN  /\ disabled_until'[k] = DisabledUntil(km_ret'.reset, now)
                /\ DOMAIN disabled_until' = DOMAIN disabled_until
                /\ \A x \in DOMAIN disabled_until \ {k} :
                      disabled_until'[x] = disabled_until[x]
                /\ current_index' = current_index
                /\ last_key' = last_key
      ]_vars

\* a second disable_key moved the deadline of a cooling key to an earlier time
C36_Witness ==
    /\ km_ret.op = "penalize"
    /\ \E old \in km_was :
          /\ disabled_until[km_ret.key] < old
          /\ disabled_until[km_ret.key] > now

\* C39: the keys that have a disabled_until entry are always keys of the
\* pool, also after disable_key was called with an arbitrary key string, and
\* so the wait a failing get_next_key computes is strictly positive
C39_EntriesOnlyForPoolKeys ==
    /\ DOMAIN disabled_until \subseteq Pool
    /\ km_ret.op = "fail" => \A w \in km_ret.wait : w > 0

\* C38: the retry loop calls disable_key only in the step that follows an
\* attempt answered 429, and with the key of that attempt; an attempt that
\* ends in success, in another HTTP error or in a transport error is
\* followed by no disable_key call and changes no cooldown entry
C38_PenalizeOnlyAfter429 ==
    [][ \A r \in Requests :
          /\ km_ret'.op = "penalize" =>
                /\ pc[r] = "penalize"
                /\ last_error[r].kind = "http"
                /\ last_error[r].status = RATE_LIMIT_ERROR_CODE
                /\ last_error[r].attempt = attempt[r]
                /\ last_error[r].key = api_key[r]
                /\ km_ret'.key = api_key[r]
          /\ pc[r] \in {"attempt", "streaming"} =>
                /\ disabled_until' = disabled_until
                /\ pc'[r] = "penalize" =>
                      last_error'[r].status = RATE_LIMIT_ERROR_CODE
          /\ pc[r] = "done" => disabled_until' = disabled_until
      ]_vars

\* a request that was answered 429 with one key, disabled that key, and then
\* ended with a non-429 error of another key that has no entry
C38_Witness ==
    \E r \in Requests :
        /\ pc[r] = "done"
        /\ result[r].kind = "upstream_error"
        /\ attempt[r] = 1
        /\ DOMAIN disabled_until # {}
        /\ api_key[r] \notin DOMAIN disabled_until

\* C37: while the cooldown is positive and no cooldown expires during the
\* request, no attempt of a chat request is made with a key an earlier attempt
\* of it was made with; so with fewer than max_retries pool keys that are all
\* answered 429 the request makes exactly one attempt per key and then ends
\* because no key is available (503 when not streaming), before the loop
\* has run max_retries times
C37_NoKeyTwice ==
    /\ [][ \A r \in Requests :
             (/\ pc[r] = "acquire"
              /\ km_ret'.op = "acquire"
              /\ cooldown_seconds > 0
              /\ ~reenabled'[r])
                => /\ km_ret'.key \notin tried[r]
                   /\ Cardinality(tried'[r]) = n_attempts'[r]
         ]_vars
    /\ [](\A r \in Requests :
            (/\ pc[r] = "done"
             /\ cooldown_seconds > 0
             /\ ~reenabled[r]
             /\ strategy \in KnownStrategies
             /\ Len(keys) < max_retries
             /\ Pool \subseteq limited
             /\ last_error[r].kind # "request")
                => /\ n_attempts[r] = Len(keys)
                   /\ tried[r] = Pool
                   /\ attempt[r] = Len(keys)
                   /\ attempt[r] < max_retries
                   /\ result[r].kind = IF is_streaming[r] THEN "stream_no_key"
                                       ELSE "no_key"
                   /\ ~is_streaming[r] => result[r].status = 503)

\* three keys, each attempted once and answered 429, then the 503
C37_Witness ==
    \E r \in Requests :
        /\ pc[r] = "done"
        /\ ~is_streaming[r]
        /\ cooldown_seconds > 0
        /\ ~reenabled[r]
        /\ Len(keys) = 3
        /\ tried[r] = Pool
        /\ n_attempts[r] = 3
        /\ result[r].kind = "no_key"
        /\ result[r].status = 503

\* C34: in the streaming retry loop the response of an attempt answered with
\* a status >= 400 is closed when the error is handled, so a request never
\* has two upstream responses open, and get_next_key for the next attempt is
\* called only when the response of the previous attempt is closed
C34_FailedStreamClosedBeforeRetry ==
    /\ [](\A r \in Requests :
            /\ Cardinality(open_resp[r]) <= 1
            /\ open_resp[r] \subseteq {attempt[r]}
            /\ pc[r] \in {"idle", "acquire", "attempt", "penalize", "done"}
                  => open_resp[r] = {})
    /\ [][ \A r \in Requests :
             /\ (/\ pc[r] = "attempt"
                 /\ is_streaming[r]
                 /\ last_error'[r] # last_error[r]
                 /\ last_error'[r].kind = "http")
                   => open_resp'[r] = {}
             /\ (pc[r] = "acquire" /\ GetNextKeyCalled) => open_resp[r] = {}
         ]_vars

\* the stream of the second attempt is open after the first attempt was
\* answered 429 and its key disabled
C34_Witness ==
    \E r \in Requests :
        /\ is_streaming[r]
        /\ pc[r] = "streaming"
        /\ attempt[r] = 1
        /\ open_resp[r] = {1}
        /\ last_error[r].kind = "http"
        /\ last_error[r].attempt = 0

\* the step is a get_next_key or a disable_key call
KeyManagerCall == km_ret'.op \in {"acquire", "fail", "error", "penalize"}

InFlight == {c \in Callers : mf_call[c].pc = "fetching"}

\* caller c, blocked on the lock while a refresh was in flight, gets the lock
\* in this step, and the last refresh came back with a non-empty model list
BlockedCallerEnters(c) ==
    /\ mf_call[c].pc = "waiting"
    /\ mf_call[c].blocked
    /\ mf_call'[c].pc # "waiting"
    /\ mf_last.kind = "ok"
    /\ mf_all_models # << >>

\* C32 as stated: at most one refresh request is in flight, and after a
\* refresh that came back with a non-empty model list no caller that was
\* blocked on the lock makes a refresh of its own
C32_SingleRefreshAsStated ==
    /\ [](Cardinality(InFlight) <= 1)
    /\ [][ \A c \in Callers :
             BlockedCallerEnters(c) => mf_call'[c].pc = "done"
         ]_vars

\* C32 amended: the same, for a blocked caller that gets the lock no more
\* than ttl after that refresh; the lock is held exactly while a request is
\* in flight, and a blocked caller that does not refresh makes no request
C32_SingleRefresh ==
    /\ [](/\ Cardinality(InFlight) <= 1
          /\ InFlight = {mf_lock} \ {NoCaller}
          /\ \A c \in Callers :
                mf_call[c].pc = "waiting" => mf_call[c].blocked)
    /\ [][ \A c \in Callers :
             (BlockedCallerEnters(c)
              /\ now - mf_last_fetch_time <= mf_cache_ttl)
                => /\ mf_call'[c].pc = "done"
                   /\ ~mf_call'[c].fetched
                   /\ mf_lock' = NoCaller
                   /\ UNCHANGED cacheVars
         ]_vars

\* a caller that was blocked while another caller's refresh fetched a
\* non-empty list has answered from the cache without a request
C32_Witness ==
    \E c \in Callers, d \in Callers :
        /\ c # d
        /\ mf_call[c].pc = "done"
        /\ mf_call[c].blocked
        /\ ~mf_call[c].fetched
        /\ mf_call[d].pc = "done"
        /\ mf_call[d].fetched
        /\ mf_last.kind = "ok"
        /\ mf_all_models # << >>
        /\ mf_last.at = now

====
